---------------------------- MODULE Spec2Model ----------------------------
(***************************************************************************)
(* A model of the query fan-out pipeline of bdmarvin1/query_fan_out_app:   *)
(* the rate-limit backoff wrapper and the competitive profiling stage      *)
(* (stages/stage3_profiler.py), query expansion and routing                *)
(* (stages/stage1_expander.py, stages/stage2_router.py,                    *)
(* utils/gemini_client.py), the clustering of the content planner          *)
(* (reporting/content_planner.py) and the cost ledger                      *)
(* (utils/cost_tracker.py).                                                *)
(*                                                                         *)
(* Python values are tagged records ([t |-> "None"], [t |-> "list", ...]). *)
(* The collaborators (search, scrape, text generation) are environments    *)
(* whose replies are drawn from bounded sets.                              *)
(***************************************************************************)
EXTENDS Integers, Sequences, FiniteSets, TLC

VARIABLES
    \* stage3_profiler.py module configuration (lines 17-21)
    MAX_SEARCH_RESULTS, MIN_SCRAPABLE_RESULTS, INITIAL_SCRAPE_ATTEMPTS,
    INITIAL_DELAY, MAX_RETRIES,
    \* one run of _firecrawl_with_backoff, attempt by attempt
    backoff, wrapper_calls,
    \* profile_content_competitively: the module's client, the argument (mutated
    \* in place), the position in the function and its locals
    app, client_instance, stage2_output, pc, idx,
    search_results, top_urls, scraped_content, urls_to_scrape_count, attempted_urls,
    urls_for_this_attempt, url_i,
    \* history of the profiling run: outer passes and wrapped scrape calls of the
    \* current item, how its scrape loop ended, the last scrape's outcome, and
    \* per item what was called and what failed
    outer_passes, scrape_calls, loop_exit, last_scrape,
    searched, synthesized, failed_steps,
    \* main.py lines 110-126: the query, the results of expand_query and of
    \* route_subqueries, the position in main
    initial_query, stage1_data, stage2_data, main_pc,
    \* _cluster_subqueries: its argument, the defaultdict it fills (in insertion
    \* order), the profile the for loop is at, the position in the function
    sub_query_profiles, clusters, profile_i, cluster_pc,
    \* the CostTracker of the run (cost_tracker.py lines 15-34), total_cost in
    \* billionths of a dollar; where its start_run / end_run stand and the
    \* error one of them raised
    firecrawl_api_key, gemini_token_usage, total_cost,
    firecrawl_credits_start, firecrawl_credits_end,
    tracker_pc, tracker_error,
    \* what each credit request of get_firecrawl_credits was answered
    credit_requests,
    \* history of the ledger: the calls of track_gemini_usage, the calls of
    \* get_summary with what they returned, and the calls of generate_content
    \* made by call_gemini_api
    tracked, summaries, gemini_calls,
    \* _synthesize_brief: the members of the cluster it is given, the brief
    \* it returned, and where the call stands
    cluster_profiles, brief, brief_pc

cfgVars == <<MAX_SEARCH_RESULTS, MIN_SCRAPABLE_RESULTS, INITIAL_SCRAPE_ATTEMPTS,
             INITIAL_DELAY, MAX_RETRIES>>
backoffVars == <<backoff, wrapper_calls>>
clientVars == <<app, client_instance>>
passVars == <<top_urls, scraped_content, urls_to_scrape_count, attempted_urls,
              urls_for_this_attempt, url_i, outer_passes, scrape_calls,
              loop_exit, last_scrape>>
loopVars == <<search_results, passVars>>
batchVars == <<stage2_output, idx, searched, synthesized, failed_steps>>
profileVars == <<clientVars, pc, loopVars, batchVars>>
mainVars == <<initial_query, stage1_data, stage2_data, main_pc>>
briefVars == <<cluster_profiles, brief, brief_pc>>
clusterVars == <<sub_query_profiles, clusters, profile_i, cluster_pc,
                 briefVars>>
trackerVars == <<firecrawl_api_key, firecrawl_credits_start,
                 firecrawl_credits_end, tracker_pc, tracker_error,
                 credit_requests, summaries>>
usageVars == <<gemini_token_usage, total_cost, tracked, gemini_calls>>
ledgerVars == <<trackerVars, usageVars>>

-----------------------------------------------------------------------------
(* Bounds of the model.                                                    *)

\* largest MAX_RETRIES the backoff specification draws
MaxRetriesCfg == 3
\* wrapper calls made one after the other in the backoff specification
MaxCalls == 2
\* items of stage2_output in the profiling specification
MaxItems == 2
\* the scrape specification: the longest search result list, the longest one
\* in which URLs repeat, and the largest MIN_SCRAPABLE_RESULTS
MaxUrls == 5
MaxDupLen == 3
MaxMinCfg == 2
\* the scrape specification with fairness: the longest search result list
\* and the largest MAX_SEARCH_RESULTS
MaxLiveUrls == 3
\* profiles given to _cluster_subqueries in the clustering specification
MaxProfiles == 2
\* calls of track_gemini_usage and of get_summary in the ledger specification
MaxTracks == 2
MaxSummaries == 2
\* members of the cluster given to _synthesize_brief
MaxMembers == 2

(* Defaults of the configuration, os.getenv(name, default).                *)
DefaultMaxSearchResults == 10
DefaultMinScrapableResults == 2
DefaultInitialScrapeAttempts == 3
DefaultInitialDelay == 5
DefaultMaxRetries == 4

-----------------------------------------------------------------------------
(* Helpers.                                                                *)

Min(a, b) == IF a < b THEN a ELSE b
Max(a, b) == IF a > b THEN a ELSE b
Range(s) == {s[i] : i \in 1..Len(s)}
Last(s) == s[Len(s)]

PyNone == [t |-> "None"]
\* a local that the current iteration has not assigned
Unassigned == [t |-> "unassigned"]

-----------------------------------------------------------------------------
(* Error messages, as the characters str(e) holds.                         *)

Chars(msg) ==
    CASE msg = "Rate Limit Exceeded" ->
           <<"R","a","t","e"," ","L","i","m","i","t"," ",
             "E","x","c","e","e","d","e","d">>
      [] msg = "RATE LIMIT" -> <<"R","A","T","E"," ","L","I","M","I","T">>
      [] msg = "rate limited" ->
           <<"r","a","t","e"," ","l","i","m","i","t","e","d">>
      [] msg = "Rate-Limit" -> <<"R","a","t","e","-","L","i","m","i","t">>
      [] msg = "timeout" -> <<"t","i","m","e","o","u","t">>
      [] OTHER -> <<>>

UpperLetters ==
    <<"A","B","C","D","E","F","G","H","I","J","K","L","M",
      "N","O","P","Q","R","S","T","U","V","W","X","Y","Z">>
LowerLetters ==
    <<"a","b","c","d","e","f","g","h","i","j","k","l","m",
      "n","o","p","q","r","s","t","u","v","w","x","y","z">>

\* str.lower(), one character
LowerChar(c) ==
    IF \E i \in 1..Len(UpperLetters) : UpperLetters[i] = c
    THEN LowerLetters[CHOOSE i \in 1..Len(UpperLetters) : UpperLetters[i] = c]
    ELSE c

\* str.lower()
Lower(s) == [i \in 1..Len(s) |-> LowerChar(s[i])]

\* sub in s, for strings
Contains(s, sub) ==
    \E i \in 0..(Len(s) - Len(sub)) : SubSeq(s, i + 1, i + Len(sub)) = sub

\* line 43: "Rate Limit Exceeded" in str(e) or "rate limit" in str(e).lower()
IsRateLimit(msg) ==
    \/ Contains(Chars(msg), Chars("Rate Limit Exceeded"))
    \/ Contains(Lower(Chars(msg)), Lower(Chars("RATE LIMIT")))

RateLimitMessages == {"Rate Limit Exceeded", "RATE LIMIT", "rate limited"}
OtherMessages == {"Rate-Limit", "timeout"}
Messages == RateLimitMessages \cup OtherMessages

-----------------------------------------------------------------------------
(* _firecrawl_with_backoff (stage3_profiler.py lines 34-54).               *)

\* what one call of crawl_function(**kwargs) does
Return(v) == [kind |-> "return", value |-> v, msg |-> ""]
Raise(m) == [kind |-> "raise", value |-> PyNone, msg |-> m]
NoOutcome == [kind |-> "none", value |-> PyNone, msg |-> ""]

\* line 38, before the first attempt
BackoffStart ==
    [status |-> "running", attempt |-> 0, delay |-> INITIAL_DELAY,
     slept |-> <<>>, calls |-> <<>>, result |-> NoOutcome]

BackoffIdle ==
    [status |-> "idle", attempt |-> 0, delay |-> 0,
     slept |-> <<>>, calls |-> <<>>, result |-> NoOutcome]

\* a mutant of BackoffIter: the delay is not doubled after a sleep
BackoffIterNoDoubling(st, out) ==
    LET called == [st EXCEPT !.calls = Append(@, out)] IN
    IF out.kind = "return"
    THEN [called EXCEPT !.status = "returned", !.result = out]
    ELSE IF IsRateLimit(out.msg) /\ st.attempt < MAX_RETRIES - 1
    THEN [called EXCEPT !.slept = Append(@, st.delay),
                        !.attempt = @ + 1]
    ELSE [called EXCEPT !.status = "raised", !.result = out]

\* a mutant of BackoffIter: a sleep follows the last failed attempt too
BackoffIterSleepsAfterLast(st, out) ==
    LET called == [st EXCEPT !.calls = Append(@, out)] IN
    IF out.kind = "return"
    THEN [called EXCEPT !.status = "returned", !.result = out]
    ELSE IF IsRateLimit(out.msg)
    THEN IF st.attempt < MAX_RETRIES - 1
         THEN [called EXCEPT !.slept = Append(@, st.delay),
                             !.delay = @ * 2,
                             !.attempt = @ + 1]
         ELSE [called EXCEPT !.slept = Append(@, st.delay),
                             !.status = "raised", !.result = out]
    ELSE [called EXCEPT !.status = "raised", !.result = out]

\* a mutant of BackoffIter: every error is retried, whatever its message
BackoffIterRetriesAnyError(st, out) ==
    LET called == [st EXCEPT !.calls = Append(@, out)] IN
    IF out.kind = "return"
    THEN [called EXCEPT !.status = "returned", !.result = out]
    ELSE IF st.attempt < MAX_RETRIES - 1
    THEN [called EXCEPT !.slept = Append(@, st.delay),
                        !.delay = @ * 2,
                        !.attempt = @ + 1]
    ELSE [called EXCEPT !.status = "raised", !.result = out]

\* lines 39-53: one iteration of the for loop, crawl_function doing `out`
BackoffIter(st, out) ==
    LET called == [st EXCEPT !.calls = Append(@, out)] IN
    IF out.kind = "return"
    THEN \* line 41
         [called EXCEPT !.status = "returned", !.result = out]
    ELSE IF IsRateLimit(out.msg)
    THEN IF st.attempt < MAX_RETRIES - 1
         THEN \* lines 45-47: sleep, double the delay, next attempt
              [called EXCEPT !.slept = Append(@, st.delay),
                             !.delay = @ * 2,
                             !.attempt = @ + 1]
         ELSE \* lines 49-50
              [called EXCEPT !.status = "raised", !.result = out]
    ELSE \* line 53
         [called EXCEPT !.status = "raised", !.result = out]

\* line 54: range(MAX_RETRIES) is used up without a return or a raise
BackoffFallback(st) ==
    [st EXCEPT !.status = "returned", !.result = Return(PyNone)]

\* the outcome of the n-th call of a stubbed crawl_function; the stub goes on
\* giving its last outcome
ScriptAt(script, n) == script[Min(n, Len(script))]

RECURSIVE RunBackoff(_, _)
\* lines 39-54: the iterations of the for loop from the state st on; the
\* state an iteration leaves is computed once, and the loop goes on from it
RunBackoff(st, script) ==
    IF st.status # "running" THEN st
    ELSE IF st.attempt < MAX_RETRIES
    THEN LET iterated == {BackoffIter(st, ScriptAt(script, st.attempt + 1))}
         IN  CHOOSE end \in {RunBackoff(next, script) : next \in iterated} :
                 TRUE
    ELSE BackoffFallback(st)

\* a whole call of the wrapper around a crawl_function that follows `script`
_firecrawl_with_backoff(script) == RunBackoff(BackoffStart, script)

-----------------------------------------------------------------------------
(* CostTracker (utils/cost_tracker.py). Money is counted in billionths of  *)
(* a dollar, which makes the prices per token of lines 18-30 integers;     *)
(* the token counts the model draws give sums that the rounding of the     *)
(* summary's six decimals never meets half-way.                            *)

PyInt(n) == [t |-> "int", n |-> n]

\* lines 18-30: the pricing table
gemini_costs ==
    ("gemini-1.5-flash-latest" :> [input |-> 350, output |-> 1050]) @@
    ("gemini-1.5-pro-latest" :>
        [cutoff |-> 200000, input_short |-> 625, input_long |-> 1250,
         output_short |-> 5000, output_long |-> 7500])

\* gemini_client.py line 33: the model name every caller leaves to its default
DefaultModelName == "gemini-2.5-pro"

\* a mutant of CallCost: a model that the pricing table does not hold is
\* charged at the flat rate of its first entry
CallCostUnknownAtFlatRate(model_name, input_tokens, output_tokens) ==
    LET cost_info == gemini_costs["gemini-1.5-flash-latest"] IN
    input_tokens * cost_info.input + output_tokens * cost_info.output

\* lines 72-89: what a call adds to total_cost
CallCost(model_name, input_tokens, output_tokens) ==
    IF model_name \in DOMAIN gemini_costs
    THEN LET cost_info == gemini_costs[model_name] IN
         IF "cutoff" \in DOMAIN cost_info
         THEN IF input_tokens <= cost_info.cutoff
              THEN input_tokens * cost_info.input_short
                   + output_tokens * cost_info.output_short
              ELSE input_tokens * cost_info.input_long
                   + output_tokens * cost_info.output_long
         ELSE input_tokens * cost_info.input + output_tokens * cost_info.output
    ELSE 0                                                 \* line 94

\* a mutant of track_gemini_usage: the tokens of a model that has no price
\* are not counted
TrackPricedModelsOnly(usage, cost, model_name, input_tokens, output_tokens) ==
    IF model_name \in DOMAIN gemini_costs
    THEN [gemini_token_usage |->
              [input |-> usage.input + input_tokens,
               output |-> usage.output + output_tokens],
          total_cost |-> cost + CallCost(model_name, input_tokens, output_tokens)]
    ELSE [gemini_token_usage |-> usage, total_cost |-> cost]

\* lines 67-94: the token counts and the total cost after the call
track_gemini_usage(usage, cost, model_name, input_tokens, output_tokens) ==
    [gemini_token_usage |->
         [input |-> usage.input + input_tokens,                \* line 69
          output |-> usage.output + output_tokens],            \* line 70
     total_cost |-> cost + CallCost(model_name, input_tokens, output_tokens)]

\* the summary has no line for the credits
Omitted == [t |-> "omitted"]

\* format spec .6f of line 102: the cost rounded to millionths of a dollar
Format6(cost) == (cost + 500) \div 1000

\* lines 96-108: the text returned, as the values its lines show
get_summary(usage, cost, credits_start, credits_end) ==
    [input_tokens |-> usage.input,                              \* line 100
     output_tokens |-> usage.output,                            \* line 101
     cost |-> Format6(cost),                                    \* line 102
     credits_used |->
         IF credits_start # PyNone /\ credits_end # PyNone      \* line 104
         THEN PyInt(credits_start.n - credits_end.n)            \* lines 105-106
         ELSE Omitted]

\* what requests.get and the response do in get_firecrawl_credits: one of
\* lines 42-47 raises an error of class `error`, or response.json() is `body`
CreditRaises(at, error) == [kind |-> "raise", at |-> at, error |-> error]
CreditBody(body) == [kind |-> "json", body |-> body]
\* a JSON object with a member "data", and one without
DataBody(data) == [t |-> "dict", data |-> data]
NoDataBody == [t |-> "dict", data |-> Omitted]
\* the object "data" holds, with a member "remainingCredits" or without
CreditData(credits) == [t |-> "dict", remainingCredits |-> credits]

MsgNoGet(type) ==
    CASE type = "None" -> "'NoneType' object has no attribute 'get'"
      [] type = "list" -> "'list' object has no attribute 'get'"
      [] OTHER -> "'str' object has no attribute 'get'"

\* lines 36-50
get_firecrawl_credits(credit_api) ==
    IF firecrawl_api_key = "None"
    THEN Return(PyNone)                                          \* lines 38-40
    ELSE IF credit_api.kind = "raise"
    THEN IF credit_api.error = "RequestException"
         THEN Return(PyNone)                                     \* lines 48-50
         ELSE Raise(credit_api.error)
    ELSE IF credit_api.body.t # "dict"
    THEN Raise(MsgNoGet(credit_api.body.t))                      \* line 47
    ELSE IF credit_api.body.data = Omitted
    THEN Return(PyNone)                       \* .get("data", {}) is {}
    ELSE IF credit_api.body.data.t # "dict"
    THEN Raise(MsgNoGet(credit_api.body.data.t))                 \* line 47
    ELSE IF credit_api.body.data.remainingCredits = Omitted
    THEN Return(PyNone)
    ELSE Return(credit_api.body.data.remainingCredits)

\* what the credit endpoint does
CreditReplies ==
    {CreditRaises("get", "RequestException"),
     CreditRaises("raise_for_status", "RequestException"),
     CreditBody(DataBody(CreditData(PyInt(100)))),
     CreditBody(DataBody(CreditData(PyInt(90)))),
     CreditBody(NoDataBody),
     CreditBody(DataBody(PyNone))}

\* lines 38-45: the request is made only with a key
CreditRequested(credit_api) ==
    IF firecrawl_api_key = "None"
    THEN UNCHANGED credit_requests
    ELSE credit_requests' = Append(credit_requests, credit_api)

\* usage_metadata of a response: absent, or the two token counts
NoUsage == [t |-> "None"]
Usage(prompt_token_count, candidates_token_count) ==
    [t |-> "usage", prompt_token_count |-> prompt_token_count,
     candidates_token_count |-> candidates_token_count]

\* a CostTracker as __init__ leaves it (lines 15-34), no call logged
TrackerFresh ==
    /\ gemini_token_usage = [input |-> 0, output |-> 0]
    /\ total_cost = 0
    /\ firecrawl_credits_start = PyInt(0)
    /\ firecrawl_credits_end = PyInt(0)
    /\ tracker_pc = "created"
    /\ tracker_error = ""
    /\ credit_requests = <<>>
    /\ tracked = <<>>
    /\ summaries = <<>>
    /\ gemini_calls = <<>>

\* the same, FIRECRAWL_API_KEY being set
LedgerFresh == firecrawl_api_key = "key" /\ TrackerFresh

-----------------------------------------------------------------------------
(* The backoff specification: calls of the wrapper, one attempt a step.    *)

\* values crawl_function returns here
BackoffValues == {[t |-> "str", s |-> "page"], PyNone}

RawOutcomes == {Return(v) : v \in BackoffValues} \cup {Raise(m) : m \in Messages}

\* main has not started
MainIdle ==
    /\ initial_query = ""
    /\ stage1_data = PyNone
    /\ stage2_data = PyNone
    /\ main_pc = "idle"

\* the content planner is not running
ClusterIdle ==
    /\ sub_query_profiles = <<>>
    /\ clusters = <<>>
    /\ profile_i = 0
    /\ cluster_pc = "idle"
    /\ cluster_profiles = <<>>
    /\ brief = PyNone
    /\ brief_pc = "idle"

\* profile_content_competitively is not running
ProfileAtRest ==
    /\ stage2_output = <<>>
    /\ pc = "idle"
    /\ idx = 0
    /\ search_results = Unassigned
    /\ top_urls = <<>>
    /\ scraped_content = <<>>
    /\ urls_to_scrape_count = 0
    /\ attempted_urls = {}
    /\ urls_for_this_attempt = <<>>
    /\ url_i = 0
    /\ outer_passes = 0
    /\ scrape_calls = <<>>
    /\ loop_exit = "none"
    /\ last_scrape = "none"
    /\ searched = {}
    /\ synthesized = {}
    /\ failed_steps = <<>>

\* the profiling stage is not running, its clients configured
ProfileIdle ==
    /\ app = "FirecrawlApp"
    /\ client_instance = "Client"
    /\ ProfileAtRest

InitBackoff ==
    /\ MAX_SEARCH_RESULTS = DefaultMaxSearchResults
    /\ MIN_SCRAPABLE_RESULTS = DefaultMinScrapableResults
    /\ INITIAL_SCRAPE_ATTEMPTS = DefaultInitialScrapeAttempts
    /\ INITIAL_DELAY \in {0, 1, DefaultInitialDelay}
    /\ MAX_RETRIES \in (0 - 1)..MaxRetriesCfg
    /\ backoff = BackoffIdle
    /\ wrapper_calls = 0
    /\ ProfileIdle
    /\ MainIdle
    /\ ClusterIdle
    /\ LedgerFresh

\* _firecrawl_with_backoff is called
BackoffCall ==
    /\ backoff.status # "running"
    /\ wrapper_calls < MaxCalls
    /\ backoff' = BackoffStart
    /\ wrapper_calls' = wrapper_calls + 1
    /\ UNCHANGED <<cfgVars, profileVars, mainVars, clusterVars, ledgerVars>>

\* one attempt of the for loop
BackoffAttempt ==
    /\ backoff.status = "running"
    /\ backoff.attempt < MAX_RETRIES
    /\ \E out \in RawOutcomes : backoff' = BackoffIter(backoff, out)
    /\ UNCHANGED <<wrapper_calls, cfgVars, profileVars, mainVars, clusterVars, ledgerVars>>

\* the for loop ends without a return or a raise
BackoffExit ==
    /\ backoff.status = "running"
    /\ ~(backoff.attempt < MAX_RETRIES)
    /\ backoff' = BackoffFallback(backoff)
    /\ UNCHANGED <<wrapper_calls, cfgVars, profileVars, mainVars, clusterVars, ledgerVars>>

NextBackoff == BackoffCall \/ BackoffAttempt \/ BackoffExit

vars == <<cfgVars, backoffVars, profileVars, mainVars, clusterVars, ledgerVars>>

SpecBackoff == InitBackoff /\ [][NextBackoff]_vars

-----------------------------------------------------------------------------
(* Python values of the profiling stage.                                   *)

PyStr(x) == [t |-> "str", s |-> x]
PyList(xs) == [t |-> "list", xs |-> xs]
\* a dict, as the function from its keys to its values
PyDict(f) == [t |-> "dict", d |-> f]
EmptyDict == PyDict(<<>>)
\* dict.get(key) of a key the dict does not hold
KeyMissing == [t |-> "missing"]

\* firecrawl.v2.types: one search result, the SearchData reply, a Document
Result(u) == [t |-> "result", url |-> u]
SearchData(web) == [t |-> "SearchData", web |-> web]
Document(n) == [t |-> "Document", markdown |-> n]

\* the text of a reply of the text-generation model: an optional code fence
\* around a body that is a JSON document (wf) or is not; words: the
\* identifiers the body's text holds
Text(prefix, body, suffix) ==
    [t |-> "text", prefix |-> prefix, body |-> body, suffix |-> suffix]
JsonDoc(v, words) == [wf |-> TRUE, value |-> v, words |-> words]
Garbage(words) == [wf |-> FALSE, value |-> PyNone, words |-> words]
EmptyText == Text("", Garbage({}), "")

\* bool(v)
Truthy(v) ==
    CASE v.t = "None" -> FALSE
      [] v.t = "missing" -> FALSE
      [] v.t = "str" -> v.s # ""
      [] v.t = "text" -> v # EmptyText
      [] v.t = "list" -> v.xs # <<>>
      [] v.t = "dict" -> DOMAIN v.d # {}
      [] OTHER -> TRUE

\* seq[:n]
Slice(seq, n) ==
    IF n >= 0 THEN SubSeq(seq, 1, Min(n, Len(seq)))
    ELSE SubSeq(seq, 1, Max(Len(seq) + n, 0))

\* markdown[:12000], on lengths
ContentLimit == 12000
Truncate(n) == Min(n, ContentLimit)

\* item['ideal_content_profile'] = {"error": msg}
ErrorProfile(msg) == [t |-> "error", error |-> msg]
NoProfile == [t |-> "absent"]

MsgNoResults == "No search results found to analyze."
\* line 102: the f-string ends with type(search_results)
MsgBadType(value) ==
    CASE value.t = "dict" ->
             "Unexpected data type from search API: <class 'dict'>"
      [] value.t = "str" ->
             "Unexpected data type from search API: <class 'str'>"
      [] value.t = "None" ->
             "Unexpected data type from search API: <class 'NoneType'>"
      [] value.t = "int" ->
             "Unexpected data type from search API: <class 'int'>"
MsgNoScrape == "Could not scrape top search results."
MsgMalformed == "Gemini API response was malformed or missing 'ideal_content_profile'."
\* str(e) of the AttributeError of result.url at line 105, which names the
\* type of the element
MsgNoUrlAttr(result) ==
    CASE result.t = "dict" -> "'dict' object has no attribute 'url'"
      [] result.t = "str" -> "'str' object has no attribute 'url'"
      [] result.t = "None" -> "'NoneType' object has no attribute 'url'"
      [] result.t = "int" -> "'int' object has no attribute 'url'"
MsgStrIndex == "string indices must be integers, not 'str'"
MsgNotConfigured == "Gemini API is not configured (google.genai.Client not initialized)."
MsgNoStrip == "'NoneType' object has no attribute 'strip'"

-----------------------------------------------------------------------------
(* call_gemini_api (gemini_client.py lines 30-115).                        *)

\* line 102: raw_response_text.strip().removeprefix(json fence).removesuffix(fence);
\* "fence-json" is the opening fence tagged json, "fence" the bare fence
CleanText(text) ==
    [text EXCEPT !.prefix = IF @ = "fence-json" THEN "" ELSE @,
                 !.suffix = IF @ = "fence" THEN "" ELSE @]

\* line 103: json.loads; a JSONDecodeError is the outcome Raise("JSONDecodeError")
JsonLoads(text) ==
    IF text.prefix = "" /\ text.suffix = "" /\ text.body.wf
    THEN Return(text.body.value)
    ELSE Raise("JSONDecodeError")

\* what client_instance.models.generate_content does: it raises, or it returns a
\* response with a text (None when the model gave no text)
Response(text) == [kind |-> "return", value |-> text, msg |-> ""]

\* lines 55-115, `api` being what generate_content does
call_gemini_api(api, response_mime_type) ==
    IF client_instance = "None"
    THEN Raise(MsgNotConfigured)                          \* lines 55-56
    ELSE IF api.kind = "raise"
    THEN api                                              \* lines 113-115
    ELSE IF response_mime_type = "application/json"
    THEN IF api.value.t = "None"
         THEN Raise(MsgNoStrip)                           \* line 102, on None
         ELSE LET parsed == JsonLoads(CleanText(api.value)) IN
              IF parsed.kind = "return"
              THEN parsed                                 \* line 103
              ELSE Return(PyDict([error |-> PyStr("Failed to parse JSON"),
                                  raw_response |-> api.value]))  \* line 108
    ELSE Return(api.value)                                \* line 111

\* the usage metadata the model gives to responses
UsageMetadata == {NoUsage, Usage(1200, 300)}
UsageOf(api) == IF api.kind = "return" THEN UsageMetadata ELSE {NoUsage}

\* lines 55-93: what a call of call_gemini_api by `caller` does to the ledger.
\* Without a client nothing is called; otherwise generate_content is called
\* and, if it returns a response with usage metadata, its token counts are
\* tracked under model_name, which every caller leaves to its default
GeminiCall(caller, response_mime_type, api, usage) ==
    IF client_instance = "None"
    THEN UNCHANGED usageVars                              \* lines 55-56
    ELSE /\ gemini_calls' =
              Append(gemini_calls,
                     [caller |-> caller, mime |-> response_mime_type,
                      api |-> api, usage |-> usage])       \* lines 82-86
         /\ IF api.kind = "return" /\ usage # NoUsage
            THEN LET t == track_gemini_usage(
                              gemini_token_usage, total_cost, DefaultModelName,
                              usage.prompt_token_count,
                              usage.candidates_token_count) IN
                 /\ gemini_token_usage' = t.gemini_token_usage
                 /\ total_cost' = t.total_cost
                 /\ tracked' =
                      Append(tracked,
                             [model_name |-> DefaultModelName,
                              input_tokens |-> usage.prompt_token_count,
                              output_tokens |-> usage.candidates_token_count])
            ELSE UNCHANGED <<gemini_token_usage, total_cost, tracked>>

-----------------------------------------------------------------------------
(* profile_content_competitively (stage3_profiler.py lines 56-193).        *)

\* line 105: the first element of the list that is no search result
FirstNoResult(xs) ==
    xs[CHOOSE i \in 1..Len(xs) :
          /\ xs[i].t # "result"
          /\ \A j \in 1..(i - 1) : xs[j].t = "result"]

\* a mutant of NormalizeSearch: the tests of lines 89 and 100 are not made,
\* so that line 105 raises on what is no list of results
NormalizeSearchUnchecked(reply) ==
    LET web == IF reply.t = "SearchData" THEN reply.web ELSE reply
        res == IF web.t = "dict" /\ "results" \in DOMAIN web.d
               THEN web.d.results ELSE web
    IN  IF res.t # "list"
        THEN [kind |-> "raise", msg |-> "TypeError", urls |-> <<>>,
              search_results |-> res]
        ELSE IF \E i \in 1..Len(res.xs) : res.xs[i].t # "result"
        THEN [kind |-> "raise", msg |-> MsgNoUrlAttr(FirstNoResult(res.xs)),
              urls |-> <<>>, search_results |-> res]
        ELSE [kind |-> "urls", msg |-> "",
              urls |-> [i \in 1..Len(res.xs) |-> res.xs[i].url],
              search_results |-> res]

\* lines 89-105: the search reply made a list of URLs, or the item's error;
\* search_results: the value the local is left with
NormalizeSearch(reply) ==
    IF ~Truthy(reply)
    THEN [kind |-> "error", msg |-> MsgNoResults, urls |-> <<>>,
          search_results |-> reply]                              \* 89-92
    ELSE LET web == IF reply.t = "SearchData"
                    THEN reply.web ELSE reply      \* 94-95
             res == IF web.t = "dict" /\ "results" \in DOMAIN web.d
                    THEN web.d.results ELSE web                       \* 97-98
         IN  IF res.t # "list"
             THEN [kind |-> "error", msg |-> MsgBadType(res), urls |-> <<>>,
                   search_results |-> res]                         \* 100-103
             ELSE IF \E i \in 1..Len(res.xs) : res.xs[i].t # "result"
             THEN [kind |-> "raise", msg |-> MsgNoUrlAttr(FirstNoResult(res.xs)),
                   urls |-> <<>>, search_results |-> res]              \* 105
             ELSE [kind |-> "urls", msg |-> "",
                   urls |-> [i \in 1..Len(res.xs) |-> res.xs[i].url],
                   search_results |-> res]

\* line 126: isinstance(scrape_data, Document) and scrape_data.markdown
UsableScrape(scrape_data) ==
    scrape_data.t = "Document" /\ scrape_data.markdown > 0

\* line 182: analysis_result and 'ideal_content_profile' in analysis_result
HasProfileKey(analysis_result) ==
    /\ Truthy(analysis_result)
    /\ CASE analysis_result.t = "dict" ->
              "ideal_content_profile" \in DOMAIN analysis_result.d
         [] analysis_result.t = "text" ->
              "ideal_content_profile" \in analysis_result.body.words
         [] OTHER -> FALSE

\* lines 180-190: the item's profile after the synthesis call, `reply` being
\* what call_gemini_api did; failure names the step that failed
SynthesisResult(reply) ==
    IF reply.kind = "raise"
    THEN [profile |-> ErrorProfile(reply.msg), failure |-> "synthesis_raise"]
    ELSE IF HasProfileKey(reply.value)
    THEN IF reply.value.t = "dict"
         THEN [profile |-> reply.value.d.ideal_content_profile,
               failure |-> "none"]                                    \* 183
         ELSE [profile |-> ErrorProfile(MsgStrIndex),
               failure |-> "malformed"]                    \* 183 on a str
    ELSE [profile |-> ErrorProfile(MsgMalformed), failure |-> "malformed"]

\* stub scripts of app.search and app.scrape: what the n-th call does
SearchScripts ==
    LET Results(urls) == PyList([i \in 1..Len(urls) |-> Result(urls[i])])
        replies ==
            {Results(<<>>), Results(<<1>>), Results(<<1, 2>>),
             SearchData(Results(<<1, 2>>)), SearchData(PyNone),
             SearchData(Results(<<>>)),
             PyDict([results |-> Results(<<1>>)]),
             PyDict([data |-> Results(<<1>>)]), EmptyDict,
             PyNone, PyStr("oops"), PyList(<<EmptyDict>>)}
    IN  {<<Return(r)>> : r \in replies}
        \cup {<<Raise("timeout")>>, <<Raise("RATE LIMIT")>>,
              <<Raise("Rate Limit Exceeded"), Return(Results(<<1, 2>>))>>}

ScrapeScripts ==
    {<<Return(Document(12001))>>, <<Return(Document(0))>>,
     <<Return(EmptyDict)>>, <<Raise("timeout")>>, <<Raise("RATE LIMIT")>>,
     <<Raise("Rate Limit Exceeded"), Return(Document(12001))>>}

\* a reply with the six fields of a content profile
SixFieldProfile ==
    PyDict([extractability |-> PyStr("structure"),
            evidence_density |-> PyStr("data"),
            scope_clarity |-> PyStr("audience"),
            authority_signals |-> PyStr("trust"),
            freshness |-> PyStr("recency"),
            target_keywords_and_phrasings |-> PyList(<<PyStr("kw")>>)])

\* the text of a JSON object
DictDoc(d) == JsonDoc(PyDict(d), DOMAIN d)

\* what generate_content does on the synthesis request
SynthesisReplies ==
    {Raise("timeout"), Response(PyNone), Response(EmptyText),
     Response(Text("", DictDoc([ideal_content_profile |-> SixFieldProfile]), "")),
     Response(Text("fence-json",
                   DictDoc([ideal_content_profile |-> SixFieldProfile]), "fence")),
     Response(Text("", DictDoc([profile |-> SixFieldProfile]), "")),
     Response(Text("", Garbage({"sorry"}), ""))}

Item(sq) == [sub_query |-> sq, routing |-> "routed",
             ideal_content_profile |-> NoProfile]

\* lines 69-74: the next item begins. The locals of the function keep what
\* the item before left in them until lines 87, 105, 109-111 and 114 assign
\* them again; the position in the pass and the record of the item's scrape
\* loop start afresh
LoopReset ==
    /\ UNCHANGED <<search_results, top_urls, scraped_content,
                   urls_to_scrape_count, attempted_urls, urls_for_this_attempt>>
    /\ url_i' = 0
    /\ outer_passes' = 0
    /\ scrape_calls' = <<>>
    /\ loop_exit' = "none"
    /\ last_scrape' = "none"

\* a mutant of FinishItem: the item's profile is not recorded
FinishItemUnrecorded(profile, fails) ==
    /\ failed_steps' = [failed_steps EXCEPT ![idx] = @ \cup fails]
    /\ idx' = idx + 1
    /\ pc' = "for_item"
    /\ UNCHANGED stage2_output

\* a mutant of FinishItem: the item is replaced by a new dict that holds
\* the sub-query and the profile only
FinishItemRebuilt(profile, fails) ==
    /\ stage2_output' = [stage2_output EXCEPT
                            ![idx] = [sub_query |-> @.sub_query,
                                      routing |-> "dropped",
                                      ideal_content_profile |-> profile]]
    /\ failed_steps' = [failed_steps EXCEPT ![idx] = @ \cup fails]
    /\ idx' = idx + 1
    /\ pc' = "for_item"

\* the item's profile is set and the for loop goes to the next item (a
\* continue, the end of the try block, or the except clause of lines 188-190)
FinishItem(profile, fails) ==
    /\ stage2_output' = [stage2_output EXCEPT ![idx].ideal_content_profile = profile]
    /\ failed_steps' = [failed_steps EXCEPT ![idx] = @ \cup fails]
    /\ idx' = idx + 1
    /\ pc' = "for_item"

\* lines 61-67
P_Entry ==
    /\ pc = "entry"
    /\ pc' = IF app = "None" THEN "raised"
             ELSE IF stage2_output = <<>> THEN "done" ELSE "for_item"
    /\ idx' = 1
    /\ UNCHANGED <<stage2_output, searched, synthesized, failed_steps,
                   loopVars, clientVars, cfgVars, backoffVars,
                   mainVars, clusterVars, ledgerVars>>

\* lines 69-72, and line 193 when the items are used up
P_ForItem ==
    /\ pc = "for_item"
    /\ IF idx > Len(stage2_output)
       THEN pc' = "done" /\ UNCHANGED <<idx, loopVars>>
       ELSE IF ~Truthy(stage2_output[idx].sub_query)
       THEN pc' = "for_item" /\ idx' = idx + 1 /\ UNCHANGED loopVars
       ELSE pc' = "search" /\ LoopReset /\ UNCHANGED idx
    /\ UNCHANGED <<stage2_output, searched, synthesized, failed_steps,
                   clientVars, cfgVars, backoffVars,
                   mainVars, clusterVars, ledgerVars>>

\* lines 76-111
P_Search ==
    /\ pc = "search"
    /\ \E script \in SearchScripts :
         LET r == _firecrawl_with_backoff(script)
             n == NormalizeSearch(r.result.value)
         IN  IF r.status = "raised"
             THEN FinishItem(ErrorProfile(r.result.msg), {"search_raise"})
                  /\ UNCHANGED loopVars
             ELSE IF n.kind = "error"
             THEN FinishItem(ErrorProfile(n.msg), {"search_reply"})
                  /\ search_results' = n.search_results
                  /\ UNCHANGED passVars
             ELSE IF n.kind = "raise"
             THEN FinishItem(ErrorProfile(n.msg), {"search_raise"})
                  /\ search_results' = n.search_results
                  /\ UNCHANGED passVars
             ELSE /\ search_results' = n.search_results
                  /\ top_urls' = n.urls
                  /\ scraped_content' = <<>>
                  /\ urls_to_scrape_count' = INITIAL_SCRAPE_ATTEMPTS
                  /\ attempted_urls' = {}
                  /\ pc' = "while"
                  /\ UNCHANGED <<urls_for_this_attempt, url_i, outer_passes,
                                 scrape_calls, loop_exit, last_scrape,
                                 stage2_output, failed_steps, idx>>
    /\ searched' = searched \cup {idx}
    /\ UNCHANGED <<synthesized, clientVars, cfgVars, backoffVars,
                   mainVars, clusterVars, ledgerVars>>

\* a mutant of P_While: the limit is tested with < instead of <=
P_WhileStrictLimit ==
    /\ pc = "while"
    /\ IF /\ Len(scraped_content) < MIN_SCRAPABLE_RESULTS
          /\ urls_to_scrape_count < MAX_SEARCH_RESULTS
       THEN /\ urls_for_this_attempt' = Slice(top_urls, urls_to_scrape_count)
            /\ url_i' = 1
            /\ outer_passes' = outer_passes + 1
            /\ pc' = "for_url"
            /\ UNCHANGED loop_exit
       ELSE /\ pc' = "after_scrape"
            /\ loop_exit' = "condition"
            /\ UNCHANGED <<urls_for_this_attempt, url_i, outer_passes>>
    /\ UNCHANGED <<search_results, top_urls, scraped_content,
                   urls_to_scrape_count,
                   attempted_urls, scrape_calls, last_scrape,
                   batchVars, clientVars, cfgVars, backoffVars,
                   mainVars, clusterVars, ledgerVars>>

\* a mutant of P_While: a pass takes the whole list of search results
P_WhileWholeList ==
    /\ pc = "while"
    /\ IF /\ Len(scraped_content) < MIN_SCRAPABLE_RESULTS
          /\ urls_to_scrape_count <= MAX_SEARCH_RESULTS
       THEN /\ urls_for_this_attempt' = top_urls
            /\ url_i' = 1
            /\ outer_passes' = outer_passes + 1
            /\ pc' = "for_url"
            /\ UNCHANGED loop_exit
       ELSE /\ pc' = "after_scrape"
            /\ loop_exit' = "condition"
            /\ UNCHANGED <<urls_for_this_attempt, url_i, outer_passes>>
    /\ UNCHANGED <<search_results, top_urls, scraped_content,
                   urls_to_scrape_count,
                   attempted_urls, scrape_calls, last_scrape,
                   batchVars, clientVars, cfgVars, backoffVars,
                   mainVars, clusterVars, ledgerVars>>

\* lines 113-114: the test of the while loop and the slice of a new pass
P_While ==
    /\ pc = "while"
    /\ IF /\ Len(scraped_content) < MIN_SCRAPABLE_RESULTS
          /\ urls_to_scrape_count <= MAX_SEARCH_RESULTS
       THEN /\ urls_for_this_attempt' = Slice(top_urls, urls_to_scrape_count)
            /\ url_i' = 1
            /\ outer_passes' = outer_passes + 1
            /\ pc' = "for_url"
            /\ UNCHANGED loop_exit
       ELSE /\ pc' = "after_scrape"
            /\ loop_exit' = "condition"
            /\ UNCHANGED <<urls_for_this_attempt, url_i, outer_passes>>
    /\ UNCHANGED <<search_results, top_urls, scraped_content,
                   urls_to_scrape_count,
                   attempted_urls, scrape_calls, last_scrape,
                   batchVars, clientVars, cfgVars, backoffVars,
                   mainVars, clusterVars, ledgerVars>>

\* a mutant of PassEnd: the pass widens even when the threshold is met
PassEndAlwaysWidens(content) ==
    /\ urls_to_scrape_count' = urls_to_scrape_count + 1
    /\ IF Len(content) < MIN_SCRAPABLE_RESULTS
       THEN pc' = "while" /\ UNCHANGED loop_exit
       ELSE pc' = "after_scrape" /\ loop_exit' = "break"

\* a mutant of PassEnd: an unmet threshold widens the next pass by two
PassEndWidensByTwo(content) ==
    IF Len(content) < MIN_SCRAPABLE_RESULTS
    THEN /\ urls_to_scrape_count' = urls_to_scrape_count + 2
         /\ pc' = "while"
         /\ UNCHANGED loop_exit
    ELSE /\ pc' = "after_scrape"
         /\ loop_exit' = "break"
         /\ UNCHANGED urls_to_scrape_count

\* lines 135-140, `content` being scraped_content at the end of the pass
PassEnd(content) ==
    IF Len(content) < MIN_SCRAPABLE_RESULTS
    THEN /\ urls_to_scrape_count' = urls_to_scrape_count + 1
         /\ pc' = "while"
         /\ UNCHANGED loop_exit
    ELSE /\ pc' = "after_scrape"
         /\ loop_exit' = "break"
         /\ UNCHANGED urls_to_scrape_count

\* a mutant of P_ForUrl: a scrape that fails ends the scrape loop of the
\* sub-query
P_ForUrlFailureEndsLoop ==
    /\ pc = "for_url"
    /\ IF url_i > Len(urls_for_this_attempt)
       THEN /\ PassEnd(scraped_content)
            /\ UNCHANGED <<scraped_content, attempted_urls, url_i,
                           scrape_calls, last_scrape, failed_steps>>
       ELSE LET url == urls_for_this_attempt[url_i] IN
            IF url \in attempted_urls
            THEN /\ url_i' = url_i + 1                        \* 117-118
                 /\ UNCHANGED <<scraped_content, attempted_urls, pc,
                                urls_to_scrape_count, loop_exit,
                                scrape_calls, last_scrape, failed_steps>>
            ELSE \E r \in {_firecrawl_with_backoff(script) :
                            script \in ScrapeScripts} :
                 LET ok == r.status = "returned" /\ UsableScrape(r.result.value)
                     content == IF ok
                                THEN Append(scraped_content,
                                       [url |-> url,
                                        content |-> Truncate(r.result.value.markdown)])
                                ELSE scraped_content
                 IN  /\ attempted_urls' = attempted_urls \cup {url}   \* 120
                     /\ scrape_calls' = Append(scrape_calls, url)    \* 124
                     /\ scraped_content' = content                   \* 127
                     /\ last_scrape' = IF ok THEN "scraped"
                                       ELSE IF r.status = "raised" THEN "raised"
                                       ELSE "unusable"
                     /\ failed_steps' =
                          IF r.status = "raised"
                          THEN [failed_steps EXCEPT ![idx] = @ \cup {"scrape_raise"}]
                          ELSE failed_steps
                     /\ IF ok /\ Len(content) >= MIN_SCRAPABLE_RESULTS
                        THEN PassEnd(content) /\ UNCHANGED url_i
                        ELSE IF ~ok
                        THEN /\ pc' = "after_scrape"
                             /\ loop_exit' = "break"
                             /\ UNCHANGED <<url_i, urls_to_scrape_count>>
                        ELSE /\ url_i' = url_i + 1
                             /\ UNCHANGED <<pc, urls_to_scrape_count, loop_exit>>
    /\ UNCHANGED <<search_results, top_urls, urls_for_this_attempt,
                   outer_passes, stage2_output, idx, searched, synthesized,
                   clientVars, cfgVars, backoffVars,
                   mainVars, clusterVars, ledgerVars>>

\* a mutant of P_ForUrl: a URL passed to the scrape call is not added to
\* attempted_urls
P_ForUrlNeverMarks ==
    /\ pc = "for_url"
    /\ IF url_i > Len(urls_for_this_attempt)
       THEN /\ PassEnd(scraped_content)
            /\ UNCHANGED <<scraped_content, attempted_urls, url_i,
                           scrape_calls, last_scrape, failed_steps>>
       ELSE LET url == urls_for_this_attempt[url_i] IN
            IF url \in attempted_urls
            THEN /\ url_i' = url_i + 1
                 /\ UNCHANGED <<scraped_content, attempted_urls, pc,
                                urls_to_scrape_count, loop_exit,
                                scrape_calls, last_scrape, failed_steps>>
            ELSE \E r \in {_firecrawl_with_backoff(script) :
                            script \in ScrapeScripts} :
                 LET ok == r.status = "returned" /\ UsableScrape(r.result.value)
                     content == IF ok
                                THEN Append(scraped_content,
                                       [url |-> url,
                                        content |-> Truncate(r.result.value.markdown)])
                                ELSE scraped_content
                 IN  /\ attempted_urls' = attempted_urls
                     /\ scrape_calls' = Append(scrape_calls, url)
                     /\ scraped_content' = content
                     /\ last_scrape' = IF ok THEN "scraped"
                                       ELSE IF r.status = "raised" THEN "raised"
                                       ELSE "unusable"
                     /\ failed_steps' =
                          IF r.status = "raised"
                          THEN [failed_steps EXCEPT ![idx] = @ \cup {"scrape_raise"}]
                          ELSE failed_steps
                     /\ IF ok /\ Len(content) >= MIN_SCRAPABLE_RESULTS
                        THEN PassEnd(content) /\ UNCHANGED url_i
                        ELSE /\ url_i' = url_i + 1
                             /\ UNCHANGED <<pc, urls_to_scrape_count, loop_exit>>
    /\ UNCHANGED <<search_results, top_urls, urls_for_this_attempt,
                   outer_passes, stage2_output, idx, searched, synthesized,
                   clientVars, cfgVars, backoffVars,
                   mainVars, clusterVars, ledgerVars>>

\* a mutant of P_ForUrl: the for loop does not stop when the threshold is
\* met
P_ForUrlNoBreak ==
    /\ pc = "for_url"
    /\ IF url_i > Len(urls_for_this_attempt)
       THEN /\ PassEnd(scraped_content)
            /\ UNCHANGED <<scraped_content, attempted_urls, url_i,
                           scrape_calls, last_scrape, failed_steps>>
       ELSE LET url == urls_for_this_attempt[url_i] IN
            IF url \in attempted_urls
            THEN /\ url_i' = url_i + 1
                 /\ UNCHANGED <<scraped_content, attempted_urls, pc,
                                urls_to_scrape_count, loop_exit,
                                scrape_calls, last_scrape, failed_steps>>
            ELSE \E r \in {_firecrawl_with_backoff(script) :
                            script \in ScrapeScripts} :
                 LET ok == r.status = "returned" /\ UsableScrape(r.result.value)
                     content == IF ok
                                THEN Append(scraped_content,
                                       [url |-> url,
                                        content |-> Truncate(r.result.value.markdown)])
                                ELSE scraped_content
                 IN  /\ attempted_urls' = attempted_urls \cup {url}
                     /\ scrape_calls' = Append(scrape_calls, url)
                     /\ scraped_content' = content
                     /\ last_scrape' = IF ok THEN "scraped"
                                       ELSE IF r.status = "raised" THEN "raised"
                                       ELSE "unusable"
                     /\ failed_steps' =
                          IF r.status = "raised"
                          THEN [failed_steps EXCEPT ![idx] = @ \cup {"scrape_raise"}]
                          ELSE failed_steps
                     /\ IF FALSE
                        THEN PassEnd(content) /\ UNCHANGED url_i
                        ELSE /\ url_i' = url_i + 1
                             /\ UNCHANGED <<pc, urls_to_scrape_count, loop_exit>>
    /\ UNCHANGED <<search_results, top_urls, urls_for_this_attempt,
                   outer_passes, stage2_output, idx, searched, synthesized,
                   clientVars, cfgVars, backoffVars,
                   mainVars, clusterVars, ledgerVars>>

\* lines 116-140: one URL of the for loop, and the end of the pass when the
\* URLs are used up or the threshold is met
P_ForUrl ==
    /\ pc = "for_url"
    /\ IF url_i > Len(urls_for_this_attempt)
       THEN /\ PassEnd(scraped_content)
            /\ UNCHANGED <<scraped_content, attempted_urls, url_i,
                           scrape_calls, last_scrape, failed_steps>>
       ELSE LET url == urls_for_this_attempt[url_i] IN
            IF url \in attempted_urls
            THEN /\ url_i' = url_i + 1                        \* 117-118
                 /\ UNCHANGED <<scraped_content, attempted_urls, pc,
                                urls_to_scrape_count, loop_exit,
                                scrape_calls, last_scrape, failed_steps>>
            ELSE \E r \in {_firecrawl_with_backoff(script) :
                            script \in ScrapeScripts} :
                 LET ok == r.status = "returned" /\ UsableScrape(r.result.value)
                     content == IF ok
                                THEN Append(scraped_content,
                                       [url |-> url,
                                        content |-> Truncate(r.result.value.markdown)])
                                ELSE scraped_content
                 IN  /\ attempted_urls' = attempted_urls \cup {url}   \* 120
                     /\ scrape_calls' = Append(scrape_calls, url)    \* 124
                     /\ scraped_content' = content                   \* 127
                     /\ last_scrape' = IF ok THEN "scraped"
                                       ELSE IF r.status = "raised" THEN "raised"
                                       ELSE "unusable"
                     /\ failed_steps' =
                          IF r.status = "raised"
                          THEN [failed_steps EXCEPT ![idx] = @ \cup {"scrape_raise"}]
                          ELSE failed_steps
                     /\ IF ok /\ Len(content) >= MIN_SCRAPABLE_RESULTS
                        THEN PassEnd(content) /\ UNCHANGED url_i     \* 128-129
                        ELSE /\ url_i' = url_i + 1
                             /\ UNCHANGED <<pc, urls_to_scrape_count, loop_exit>>
    /\ UNCHANGED <<search_results, top_urls, urls_for_this_attempt,
                   outer_passes, stage2_output, idx, searched, synthesized,
                   clientVars, cfgVars, backoffVars,
                   mainVars, clusterVars, ledgerVars>>

\* a mutant of P_AfterScrape: the synthesis is asked for whatever was scraped
P_AfterScrapeNoCheck ==
    /\ pc = "after_scrape"
    /\ pc' = "synthesis"
    /\ UNCHANGED <<stage2_output, failed_steps, idx, searched, synthesized,
                   loopVars, clientVars, cfgVars, backoffVars,
                   mainVars, clusterVars, ledgerVars>>

\* lines 142-145
P_AfterScrape ==
    /\ pc = "after_scrape"
    /\ IF scraped_content = <<>>
       THEN FinishItem(ErrorProfile(MsgNoScrape), {"no_scrape"})
       ELSE pc' = "synthesis" /\ UNCHANGED <<stage2_output, failed_steps, idx>>
    /\ UNCHANGED <<searched, synthesized, loopVars,
                   clientVars, cfgVars, backoffVars,
                   mainVars, clusterVars, ledgerVars>>

\* a mutant of P_Synthesis: the synthesis is outside the try block, so that a
\* failure of it leaves the function
P_SynthesisUncaught ==
    /\ pc = "synthesis"
    /\ \E api \in SynthesisReplies : \E usage \in UsageOf(api) :
         LET res == SynthesisResult(call_gemini_api(api, "text/plain")) IN
         /\ IF res.failure = "none"
            THEN FinishItem(res.profile, {})
            ELSE /\ pc' = "raised"
                 /\ failed_steps' = [failed_steps EXCEPT ![idx] = @ \cup {res.failure}]
                 /\ UNCHANGED <<stage2_output, idx>>
         /\ GeminiCall("profile_content_competitively", "text/plain", api, usage)
    /\ synthesized' = synthesized \cup {idx}
    /\ UNCHANGED <<searched, loopVars, clientVars, cfgVars, backoffVars,
                   mainVars, clusterVars, trackerVars>>

\* lines 147-190: the synthesis call and what becomes of its reply
P_Synthesis ==
    /\ pc = "synthesis"
    /\ \E api \in SynthesisReplies : \E usage \in UsageOf(api) :
         LET res == SynthesisResult(call_gemini_api(api, "text/plain")) IN
         /\ FinishItem(res.profile,
                       IF res.failure = "none" THEN {} ELSE {res.failure})
         /\ GeminiCall("profile_content_competitively", "text/plain", api, usage)
    /\ synthesized' = synthesized \cup {idx}
    /\ UNCHANGED <<searched, loopVars, clientVars, cfgVars, backoffVars,
                   mainVars, clusterVars, trackerVars>>

NextProfile ==
    P_Entry \/ P_ForItem \/ P_Search \/ P_While \/ P_ForUrl
    \/ P_AfterScrape \/ P_Synthesis

-----------------------------------------------------------------------------
(* The profiling specification: profile_content_competitively on a batch.  *)

SubQueryValues == {KeyMissing, PyStr(""), PyStr("a"), PyStr("b")}

RECURSIVE SeqsUpTo(_, _)
\* the sequences of at most n elements of S
SeqsUpTo(S, n) ==
    IF n = 0 THEN {<<>>}
    ELSE LET shorter == SeqsUpTo(S, n - 1) IN
         shorter \cup {Append(q, x) : q \in {r \in shorter : Len(r) = n - 1}, x \in S}

\* the batches up to the naming of their sub-queries, which the function
\* never reads beyond its truth value: "b" comes only after an "a"
CanonicalBatch(q) ==
    \A i \in 1..Len(q) :
        q[i] = PyStr("b") => \E j \in 1..(i - 1) : q[j] = PyStr("a")

InitProfile ==
    /\ MAX_SEARCH_RESULTS = 2
    /\ MIN_SCRAPABLE_RESULTS \in {1, 2}
    /\ INITIAL_SCRAPE_ATTEMPTS = 1
    /\ INITIAL_DELAY = DefaultInitialDelay
    /\ MAX_RETRIES \in {0, 2}
    /\ backoff = BackoffIdle
    /\ wrapper_calls = 0
    /\ app \in {"FirecrawlApp", "None"}
    /\ client_instance \in {"Client", "None"}
    /\ stage2_output \in
          {[i \in 1..Len(q) |-> Item(q[i])] :
              q \in {r \in SeqsUpTo(SubQueryValues, MaxItems) : CanonicalBatch(r)}}
    /\ pc = "entry"
    /\ idx = 0
    /\ search_results = Unassigned
    /\ top_urls = <<>>
    /\ scraped_content = <<>>
    /\ urls_to_scrape_count = 0
    /\ attempted_urls = {}
    /\ urls_for_this_attempt = <<>>
    /\ url_i = 0
    /\ outer_passes = 0
    /\ scrape_calls = <<>>
    /\ loop_exit = "none"
    /\ last_scrape = "none"
    /\ searched = {}
    /\ synthesized = {}
    /\ failed_steps = [i \in 1..Len(stage2_output) |-> {}]
    /\ MainIdle
    /\ ClusterIdle
    /\ LedgerFresh

SpecProfile == InitProfile /\ [][NextProfile]_vars

-----------------------------------------------------------------------------
(* The scrape specification: the scrape-to-threshold loop of one sub-query *)
(* from line 113 on, its search having returned top_urls.                  *)

\* each URL of the list is the first new one or one seen before
IsCanonical(q) ==
    \A i \in 1..Len(q) :
        \/ q[i] \in {q[j] : j \in 1..(i - 1)}
        \/ q[i] = Cardinality({q[j] : j \in 1..(i - 1)}) + 1

UrlLists ==
    {q \in SeqsUpTo(1..MaxDupLen, MaxDupLen) : IsCanonical(q)}
    \cup {[i \in 1..n |-> i] : n \in 0..MaxUrls}

InitScrape ==
    /\ MAX_SEARCH_RESULTS \in 0..MaxUrls
    /\ MIN_SCRAPABLE_RESULTS \in (0 - 1)..MaxMinCfg
    /\ INITIAL_SCRAPE_ATTEMPTS \in (0 - 1)..MaxUrls
    /\ INITIAL_DELAY = DefaultInitialDelay
    /\ MAX_RETRIES = 2
    /\ backoff = BackoffIdle
    /\ wrapper_calls = 0
    /\ app = "FirecrawlApp"
    /\ client_instance = "Client"
    /\ stage2_output = <<Item(PyStr("a"))>>
    /\ pc = "while"
    /\ idx = 1
    /\ top_urls \in UrlLists
    /\ search_results = PyList([i \in 1..Len(top_urls) |-> Result(top_urls[i])])
    /\ scraped_content = <<>>
    /\ urls_to_scrape_count = INITIAL_SCRAPE_ATTEMPTS
    /\ attempted_urls = {}
    /\ urls_for_this_attempt = <<>>
    /\ url_i = 0
    /\ outer_passes = 0
    /\ scrape_calls = <<>>
    /\ loop_exit = "none"
    /\ last_scrape = "none"
    /\ searched = {1}
    /\ synthesized = {}
    /\ failed_steps = <<{}>>
    /\ MainIdle
    /\ ClusterIdle
    /\ LedgerFresh

NextScrape == P_While \/ P_ForUrl \/ P_AfterScrape \/ P_Synthesis \/ P_ForItem

SpecScrape == InitScrape /\ [][NextScrape]_vars

\* the function runs its statements one after the other and none of them
\* waits: a step that can be taken is taken
InitScrapeLive ==
    /\ InitScrape
    /\ MAX_SEARCH_RESULTS <= MaxLiveUrls
    /\ Len(top_urls) <= MaxLiveUrls

SpecScrapeLive == InitScrapeLive /\ [][NextScrape]_vars /\ WF_vars(NextScrape)

-----------------------------------------------------------------------------
(* expand_query (stage1_expander.py lines 9-101) and route_subqueries      *)
(* (stage2_router.py lines 25-111).                                        *)

\* d[k] = v, on a dict
DictSet(d, k, v) ==
    PyDict([x \in DOMAIN d.d \cup {k} |-> IF x = k THEN v ELSE d.d[x]])

\* d.get(k, default)
DictGet(d, k, default) == IF k \in DOMAIN d.d THEN d.d[k] ELSE default

SeqFields == <<"rewrites_and_diversifications", "speculative_sub_questions",
               "projected_latent_intents">>

\* str(e) of the TypeError of value['original_query'] = query
ItemAssignmentError(value) ==
    CASE value.t = "list" -> "list indices must be integers or slices, not str"
      [] value.t = "None" -> "'NoneType' object does not support item assignment"
      [] OTHER -> "'str' object does not support item assignment"

\* stage1_expander.py lines 90-101
ExpansionFallback(query, msg) ==
    PyDict([original_query |-> PyStr(query),
            error |-> PyStr(msg),
            classified_intent |-> PyStr("unknown"),
            domain |-> PyStr("unknown"),
            subdomain |-> PyStr("unknown"),
            risk_profile |-> PyStr("unknown"),
            identified_slots |-> EmptyDict,
            projected_latent_intents |-> PyList(<<>>),
            rewrites_and_diversifications |-> PyList(<<>>),
            speculative_sub_questions |-> PyList(<<>>)])

\* stage1_expander.py lines 78-101, `api` being what generate_content does
expand_query(query, api) ==
    LET expansion_data == call_gemini_api(api, "application/json") IN
    IF expansion_data.kind = "raise"
    THEN ExpansionFallback(query, expansion_data.msg)              \* 88-101
    ELSE IF expansion_data.value.t = "dict"
    THEN DictSet(expansion_data.value, "original_query", PyStr(query)) \* 85-87
    ELSE ExpansionFallback(query, ItemAssignmentError(expansion_data.value))

\* stage2_router.py lines 44-46: the three lists joined, or the TypeError of +
\* on a value that is no list
JoinedSubQueries(stage1_output) ==
    LET part(i) == DictGet(stage1_output, SeqFields[i], PyList(<<>>)) IN
    IF \A i \in 1..3 : part(i).t = "list"
    THEN Return(PyList(part(1).xs \o part(2).xs \o part(3).xs))
    ELSE Raise("TypeError")

\* line 43: the orders list(set(...)) can give
ListOfSet(stage1_output) ==
    LET joined == JoinedSubQueries(stage1_output)
        S == IF joined.kind = "raise" THEN {} ELSE Range(joined.value.xs)
    IN  {q \in SeqsUpTo(S, Cardinality(S)) : Range(q) = S}

\* stage2_router.py lines 10-16
SOURCE_TYPES ==
    <<"Coaching blogs", "training websites", "expert-authored pages",
      "E-commerce sites", "product review sites", "affiliate blogs",
      "Instructional platforms", "fitness apps", "YouTube channels",
      "Knowledge bases", "encyclopedias", "government or academic sources",
      "financial data APIs", "bank product pages",
      "personal finance editorial sites">>

\* stage2_router.py lines 18-22
MODALITY_TYPES ==
    <<"Long-form text", "structured schedules", "tables", "Listicles",
      "bullet lists", "product comparison tables", "Video (with transcripts)",
      "step-by-step guides", "Concise explanatory text",
      "structured definitions">>

\* a mutant of RoutingFallback: a failure gives no item at all
RoutingFallbackEmpty(sub_queries, msg) == PyList(<<>>)

\* stage2_router.py lines 103-111
RoutingFallback(sub_queries, msg) ==
    PyList([i \in 1..Len(sub_queries) |->
              PyDict([sub_query |-> sub_queries[i],
                      predicted_source_types |-> PyList(<<PyStr("unknown")>>),
                      predicted_modality |-> PyStr("unknown"),
                      error |-> PyStr(msg)])])

MsgNotList == "Gemini API did not return a list as expected."

\* stage2_router.py lines 43-111, sub_queries being the order list(set(...))
\* gave and `api` what generate_content does: the list returned, or the
\* TypeError of line 43 that leaves the function
route_subqueries(stage1_output, sub_queries, api) ==
    IF JoinedSubQueries(stage1_output).kind = "raise"
    THEN JoinedSubQueries(stage1_output)                           \* 43-47
    ELSE IF sub_queries = <<>>
    THEN Return(PyList(<<>>))                                      \* 49-51
    ELSE LET routed_queries == call_gemini_api(api, "application/json") IN
         IF routed_queries.kind = "raise"
         THEN Return(RoutingFallback(sub_queries, routed_queries.msg)) \* 100-111
         ELSE IF routed_queries.value.t # "list"
         THEN Return(RoutingFallback(sub_queries, MsgNotList))     \* 95-96
         ELSE routed_queries                                       \* 99

\* a mutant of RouteDelegates: the call is made for an empty list too
RouteDelegatesAlways(stage1_output, sub_queries) ==
    JoinedSubQueries(stage1_output).kind = "return"

\* stage2_router.py lines 43-51: the call of line 88 is reached, for line 43
\* did not raise and the list of sub-queries is not empty
RouteDelegates(stage1_output, sub_queries) ==
    /\ JoinedSubQueries(stage1_output).kind = "return"
    /\ sub_queries # <<>>

\* the text of a JSON array
ListDoc(xs) == JsonDoc(PyList(xs), {})

StrList(names) == PyList([i \in 1..Len(names) |-> PyStr(names[i])])

\* a stage 1 reply with the given sequence fields
ExpansionDoc(rewrites, questions, intents) ==
    DictDoc([classified_intent |-> PyStr("informational"),
             rewrites_and_diversifications |-> rewrites,
             speculative_sub_questions |-> questions,
             projected_latent_intents |-> intents])

\* what generate_content does on the expansion request
ExpansionReplies ==
    {Raise("timeout"), Response(PyNone), Response(EmptyText),
     Response(Text("", Garbage({"sorry"}), "")),
     Response(Text("", ListDoc(<<>>), "")),
     Response(Text("", JsonDoc(PyNone, {}), "")),
     Response(Text("", DictDoc([classified_intent |-> PyStr("informational")]), "")),
     Response(Text("", ExpansionDoc(StrList(<<"a">>), StrList(<<>>), PyNone), "")),
     Response(Text("fence-json",
                   ExpansionDoc(StrList(<<"a", "b">>), StrList(<<"b">>),
                                StrList(<<>>)), "fence")),
     Response(Text("fence-json", ExpansionDoc(StrList(<<"a">>), StrList(<<>>),
                                              StrList(<<>>)), ""))}
    \cup {Response(Text("", ExpansionDoc(StrList(r), StrList(q), StrList(i)), "")) :
            r \in {<<>>, <<"a">>, <<"a", "a">>, <<"a", "b">>},
            q \in {<<>>, <<"b">>},
            i \in {<<>>, <<"c">>}}

\* one routed item of a stage 2 reply
Routed(sq) ==
    PyDict([sub_query |-> PyStr(sq),
            predicted_source_types |-> PyList(<<PyStr("how_to_guides")>>),
            predicted_modality |-> PyStr("text")])

\* what generate_content does on the routing request
RoutingReplies ==
    {Raise("timeout"), Response(PyNone),
     Response(Text("", Garbage({"sorry"}), "")),
     Response(Text("", DictDoc([routes |-> PyList(<<Routed("a")>>)]), ""))}
    \cup {Response(Text("", ListDoc([i \in 1..Len(q) |-> Routed(q[i])]), "")) :
            q \in {<<>>, <<"a">>, <<"a", "b">>, <<"b", "a">>, <<"a", "a">>,
                   <<"a", "b", "c">>, <<"a", "b", "c", "d">>}}

Queries == {"", "q"}

InitMain ==
    /\ MAX_SEARCH_RESULTS = DefaultMaxSearchResults
    /\ MIN_SCRAPABLE_RESULTS = DefaultMinScrapableResults
    /\ INITIAL_SCRAPE_ATTEMPTS = DefaultInitialScrapeAttempts
    /\ INITIAL_DELAY = DefaultInitialDelay
    /\ MAX_RETRIES = DefaultMaxRetries
    /\ backoff = BackoffIdle
    /\ wrapper_calls = 0
    /\ app \in {"FirecrawlApp", "None"}
    /\ client_instance \in {"Client", "None"}
    /\ ProfileAtRest
    /\ initial_query = ""
    /\ stage1_data = PyNone
    /\ stage2_data = PyNone
    /\ main_pc = "start_run"
    /\ ClusterIdle
    \* stage3_profiler.py lines 24-32: the client is built only with a key
    /\ firecrawl_api_key \in IF app = "None" THEN {"key", "None"} ELSE {"key"}
    /\ TrackerFresh

\* main.py line 102: start_run (cost_tracker.py lines 52-56) takes the first
\* snapshot of the credits; an error it does not catch ends main
M_StartRun ==
    /\ main_pc = "start_run"
    /\ \E credit_api \in CreditReplies :
         LET out == get_firecrawl_credits(credit_api) IN
         /\ CreditRequested(credit_api)
         /\ IF out.kind = "raise"
            THEN /\ tracker_pc' = "raised"
                 /\ tracker_error' = out.msg
                 /\ main_pc' = "start_run_raised"
                 /\ UNCHANGED firecrawl_credits_start
            ELSE /\ firecrawl_credits_start' = out.value
                 /\ tracker_pc' = "started"
                 /\ main_pc' = "input"
                 /\ UNCHANGED tracker_error
    /\ UNCHANGED <<firecrawl_api_key, firecrawl_credits_end, summaries,
                   usageVars, initial_query, stage1_data, stage2_data,
                   cfgVars, backoffVars, profileVars, clusterVars>>

\* main.py lines 110-111: the query is read from the terminal
M_Input ==
    /\ main_pc = "input"
    /\ initial_query' \in Queries
    /\ main_pc' = "stage1"
    /\ UNCHANGED <<stage1_data, stage2_data, cfgVars, backoffVars,
                   profileVars, clusterVars, trackerVars, usageVars>>

\* main.py line 120
M_Expand ==
    /\ main_pc = "stage1"
    /\ \E api \in ExpansionReplies : \E usage \in UsageOf(api) :
         /\ stage1_data' = expand_query(initial_query, api)
         /\ GeminiCall("expand_query", "application/json", api, usage)
    /\ main_pc' = "stage2"
    /\ UNCHANGED <<initial_query, stage2_data, cfgVars, backoffVars,
                   profileVars, clusterVars, trackerVars>>

\* main.py line 125
M_Route ==
    /\ main_pc = "stage2"
    /\ \E sub_queries \in ListOfSet(stage1_data), api \in RoutingReplies :
         \E usage \in UsageOf(api) :
         LET out == route_subqueries(stage1_data, sub_queries, api) IN
         /\ IF out.kind = "raise"
            THEN main_pc' = "raised" /\ UNCHANGED stage2_data
            ELSE main_pc' = "stage3" /\ stage2_data' = out.value
         /\ IF RouteDelegates(stage1_data, sub_queries)
            THEN GeminiCall("route_subqueries", "application/json", api, usage)
            ELSE UNCHANGED usageVars
    /\ UNCHANGED <<initial_query, stage1_data, cfgVars, backoffVars,
                   profileVars, clusterVars, trackerVars>>

NextMain == M_StartRun \/ M_Input \/ M_Expand \/ M_Route

SpecMain == InitMain /\ [][NextMain]_vars

-----------------------------------------------------------------------------
(* _cluster_subqueries (content_planner.py lines 12-38).                   *)

\* lines 17-24, in the order of the dict; a keyword is its characters
cluster_keywords ==
    <<
      [cluster_name |-> "Cost & Sizing",
       keywords |->
         <<
           <<"c","o","s","t">>, <<"p","r","i","c","e">>,
           <<"c","h","e","a","p">>, <<"s","i","z","e">>,
           <<"h","o","w"," ","m","u","c","h">>,
           <<"p","r","i","c","i","n","g">>
         >>],
      [cluster_name |-> "How-To & Logistics",
       keywords |->
         <<
           <<"h","o","w"," ","t","o">>, <<"p","a","c","k">>,
           <<"t","i","p","s">>, <<"g","u","i","d","e">>,
           <<"o","r","g","a","n","i","z","e">>, <<"r","u","l","e","s">>,
           <<"c","h","e","c","k","l","i","s","t">>, <<"p","l","a","n">>
         >>],
      [cluster_name |-> "Comparison & Alternatives",
       keywords |->
         <<
           <<"v","s">>, <<"v","e","r","s","u","s">>, <<"o","r">>,
           <<"b","e","s","t">>,
           <<"a","l","t","e","r","n","a","t","i","v","e">>,
           <<"c","o","m","p","a","r","e">>, <<"r","e","v","i","e","w">>
         >>],
      [cluster_name |-> "Benefits & Reasons",
       keywords |->
         <<
           <<"w","h","y">>, <<"b","e","n","e","f","i","t">>,
           <<"a","d","v","a","n","t","a","g","e">>,
           <<"s","h","o","u","l","d"," ","i">>
         >>],
      [cluster_name |-> "Definitions & Concepts",
       keywords |->
         <<
           <<"w","h","a","t"," ","i","s">>,
           <<"w","h","a","t"," ","a","r","e">>, <<"d","e","f","i","n","e">>,
           <<"m","e","a","n","i","n","g">>
         >>],
      [cluster_name |-> "Problem & Solution",
       keywords |->
         <<
           <<"p","r","e","v","e","n","t">>, <<"a","v","o","i","d">>,
           <<"s","o","l","u","t","i","o","n">>, <<"i","s","s","u","e">>,
           <<"f","i","x">>, <<"r","u","l","e","s">>,
           <<"n","o","t"," ","k","e","e","p">>
         >>]
    >>

\* sub-query texts, as their characters
SubQueryTexts ==
    {
      <<>>,
      <<"h","o","w"," ","m","u","c","h"," ","t","o"," ","p","a","c","k">>,
      <<"B","e","s","t"," ","P","R","I","C","E"," ","g","u","i","d","e">>,
      <<"r","u","l","e","s">>,
      <<"w","h","y"," ","o","r"," ","w","h","a","t"," ","i","s">>,
      <<"c","o","s","t","s">>, <<"h","o","w"," "," ","m","u","c","h">>,
      <<"h","o","w","\t","m","u","c","h">>, <<"f","i","x"," ","i","t">>,
      <<"l","o","w","_","c","o","s","t"," ","v","s">>,
      <<"c","o","s","t","-","c","u","t">>,
      <<"w","h","a","t"," ","a","r","e"," ","t","i","p","s">>,
      <<"s","h","o","u","l","d"," ","i">>,
      <<"w","h","a","t"," ","i","s"," ","x">>, <<"h","o","t","e","l">>
    }

\* re: the characters \w and \s match
Digits == <<"0","1","2","3","4","5","6","7","8","9">>
WordChars == Range(UpperLetters) \cup Range(LowerLetters) \cup Range(Digits)
                 \cup {"_"}
IsWordChar(c) == c \in WordChars
IsSpace(c) == c \in {" ", "\t", "\n"}

\* re: \b holds between the characters n and n + 1 of s
WordBoundary(s, n) ==
    LET word(i) == i \in 1..Len(s) /\ IsWordChar(s[i]) IN
    word(n) # word(n + 1)

\* line 30: the pattern \b keyword.replace(' ', \s) \b matches s from
\* character p on
MatchAt(keyword, s, p) ==
    /\ p + Len(keyword) - 1 <= Len(s)
    /\ WordBoundary(s, p - 1)
    /\ \A j \in 1..Len(keyword) :
          IF keyword[j] = " " THEN IsSpace(s[p + j - 1])
          ELSE s[p + j - 1] = keyword[j]
    /\ WordBoundary(s, p + Len(keyword) - 1)

\* line 30: re.search(pattern, query_lower)
ReSearch(keyword, s) == \E p \in 1..Len(s) : MatchAt(keyword, s, p)

\* line 30: any(re.search(...) for keyword in keywords)
AnyKeyword(keywords, query_lower) ==
    \E k \in 1..Len(keywords) : ReSearch(keywords[k], query_lower)

\* a mutant of ClusterOf: the last matching cluster wins
ClusterOfLastMatch(query_lower) ==
    LET matching == {c \in 1..Len(cluster_keywords) :
                        AnyKeyword(cluster_keywords[c].keywords, query_lower)}
    IN  IF matching = {} THEN "General Information"
        ELSE cluster_keywords[CHOOSE c \in matching :
                                \A d \in matching : c >= d].cluster_name

\* lines 28-35: the cluster of a lowered sub-query, the first in the order of
\* cluster_keywords one of whose keywords matches, or the catch-all
ClusterOf(query_lower) ==
    LET matching == {c \in 1..Len(cluster_keywords) :
                        AnyKeyword(cluster_keywords[c].keywords, query_lower)}
    IN  IF matching = {} THEN "General Information"
        ELSE cluster_keywords[CHOOSE c \in matching :
                                \A d \in matching : c <= d].cluster_name

\* clusters[cluster_name].append(profile), on the defaultdict
ClusterAppend(dict, cluster_name, profile) ==
    IF \E j \in 1..Len(dict) : dict[j].cluster_name = cluster_name
    THEN [j \in 1..Len(dict) |->
            IF dict[j].cluster_name = cluster_name
            THEN [dict[j] EXCEPT !.profiles = Append(@, profile)]
            ELSE dict[j]]
    ELSE Append(dict, [cluster_name |-> cluster_name, profiles |-> <<profile>>])

\* a str whose text is the given characters
StrOf(chars) == [t |-> "str", s |-> chars]

\* the values of a profile's sub_query: absent, null, or a text
ProfileSubQueries == {KeyMissing, PyNone} \cup {StrOf(x) : x \in SubQueryTexts}

\* a profile, `id` telling the objects of the list apart
Profile(i, sq) == [id |-> i, sub_query |-> sq]

InitCluster ==
    /\ MAX_SEARCH_RESULTS = DefaultMaxSearchResults
    /\ MIN_SCRAPABLE_RESULTS = DefaultMinScrapableResults
    /\ INITIAL_SCRAPE_ATTEMPTS = DefaultInitialScrapeAttempts
    /\ INITIAL_DELAY = DefaultInitialDelay
    /\ MAX_RETRIES = DefaultMaxRetries
    /\ backoff = BackoffIdle
    /\ wrapper_calls = 0
    /\ ProfileIdle
    /\ MainIdle
    /\ LedgerFresh
    /\ sub_query_profiles \in
          {[i \in 1..Len(q) |-> Profile(i, q[i])] :
              q \in SeqsUpTo(ProfileSubQueries, MaxProfiles)}
    /\ clusters = <<>>
    /\ profile_i = 1
    /\ cluster_pc = "for_profile"
    /\ cluster_profiles = <<>>
    /\ brief = PyNone
    /\ brief_pc = "idle"

\* lines 26-35: one iteration of the for loop
C_ForProfile ==
    /\ cluster_pc = "for_profile"
    /\ profile_i <= Len(sub_query_profiles)
    /\ LET profile == sub_query_profiles[profile_i] IN
       IF profile.sub_query.t # "str"
       THEN \* line 27: KeyError, or AttributeError on None
            /\ cluster_pc' = "raised"
            /\ UNCHANGED <<clusters, profile_i>>
       ELSE /\ clusters' = ClusterAppend(clusters,
                                         ClusterOf(Lower(profile.sub_query.s)),
                                         profile)
            /\ profile_i' = profile_i + 1
            /\ UNCHANGED cluster_pc
    /\ UNCHANGED <<sub_query_profiles, briefVars, cfgVars, backoffVars,
                   profileVars, mainVars, ledgerVars>>

\* lines 37-38
C_Return ==
    /\ cluster_pc = "for_profile"
    /\ profile_i > Len(sub_query_profiles)
    /\ cluster_pc' = "returned"
    /\ UNCHANGED <<sub_query_profiles, clusters, profile_i, briefVars,
                   cfgVars, backoffVars, profileVars, mainVars, ledgerVars>>

NextCluster == C_ForProfile \/ C_Return

SpecCluster == InitCluster /\ [][NextCluster]_vars

-----------------------------------------------------------------------------
(* _synthesize_brief (content_planner.py lines 40-92).                     *)

\* the characters of the texts, in the order of their code points
CodePoints ==
    <<"\t", "\n", " ", "&", "-">> \o Digits \o UpperLetters \o <<"_">>
        \o LowerLetters
Ord(c) == CHOOSE i \in 1..Len(CodePoints) : CodePoints[i] = c

\* a < b on two str, given as their characters
StrLess(a, b) ==
    \E k \in 1..(Len(b)) :
        /\ \A j \in 1..(k - 1) : j <= Len(a) /\ a[j] = b[j]
        /\ k > Len(a) \/ Ord(a[k]) < Ord(b[k])

RECURSIVE Sorted(_)
\* sorted(list(S)) of a set of str
Sorted(S) ==
    IF S = {} THEN <<>>
    ELSE LET least == CHOOSE x \in S :
                        \A y \in S : x = y \/ StrLess(x.s, y.s)
         IN  <<least>> \o Sorted(S \ {least})

\* the five rows of the brief: key of line 80, the key of the profile that
\* the chain of replace of line 82 gives, and key.capitalize() of line 85
BriefRows ==
    <<[key |-> "structure", detail_key |-> "extractability",
       label |-> "Structure"],
      [key |-> "data", detail_key |-> "evidence_density", label |-> "Data"],
      [key |-> "audience", detail_key |-> "scope_clarity",
       label |-> "Audience"],
      [key |-> "trust", detail_key |-> "authority_signals",
       label |-> "Trust"],
      [key |-> "recency", detail_key |-> "freshness", label |-> "Recency"]>>

\* lines 53 and 66: profile.get('ideal_content_profile', {})
IdealProfile(profile) ==
    IF profile.ideal_content_profile = KeyMissing THEN EmptyDict
    ELSE profile.ideal_content_profile

\* lines 45-59: the sub-query of each member, then the sorted set of the
\* keywords of the members
target_keywords(profiles) ==
    LET listed(profile) ==
            IF "target_keywords_and_phrasings"
                  \in DOMAIN IdealProfile(profile).d
            THEN Range(IdealProfile(profile).d.target_keywords_and_phrasings.xs)
            ELSE {}
        unique_keywords == UNION {listed(profiles[i]) : i \in 1..Len(profiles)}
    IN  [i \in 1..Len(profiles) |-> profiles[i].sub_query]
            \o Sorted(unique_keywords)

\* a mutant of aggregated_brief_details: the first member alone is read
AggregatedOfFirstMember(profiles, key) ==
    LET ideal_profile == IdealProfile(profiles[1]) IN
    IF /\ "error" \notin DOMAIN ideal_profile.d
       /\ Truthy(DictGet(ideal_profile, key, PyNone))
       /\ ideal_profile.d[key] # PyStr("N/A")
    THEN <<ideal_profile.d[key]>>
    ELSE <<>>

\* lines 62-74: aggregated_brief_details[key], the values of the field `key`
\* of the members without an error, empty and N/A values left out, in the
\* order of the members
aggregated_brief_details(profiles, key) ==
    LET F[n \in 0..Len(profiles)] ==
            IF n = 0 THEN <<>>
            ELSE LET ideal_profile == IdealProfile(profiles[n]) IN
                 IF /\ "error" \notin DOMAIN ideal_profile.d
                    /\ Truthy(DictGet(ideal_profile, key, PyNone))
                    /\ ideal_profile.d[key] # PyStr("N/A")
                 THEN Append(F[n - 1], ideal_profile.d[key])
                 ELSE F[n - 1]
    IN  F[Len(profiles)]

\* sep.join(parts), kept as its parts
Join(sep, parts) == [t |-> "joined", sep |-> sep, parts |-> parts]

\* lines 40-92: the text returned, as the note of line 78 or the five rows
\* of lines 80-85, then the keyword lines of lines 87-90
_synthesize_brief(cluster_name, profiles) ==
    IF profiles = <<>> THEN PyStr("No profiles to analyze.")
    ELSE LET has_valid_profile ==
                 \E i \in 1..Len(profiles) :
                     "error" \notin DOMAIN IdealProfile(profiles[i]).d
             combined_value(detail_key) ==
                 IF aggregated_brief_details(profiles, detail_key) # <<>>
                 THEN Join("; ", aggregated_brief_details(profiles, detail_key))
                 ELSE PyStr("N/A")
         IN  [t |-> "brief",
              note |-> ~has_valid_profile,
              rows |-> IF has_valid_profile
                       THEN [r \in 1..Len(BriefRows) |->
                               [label |-> BriefRows[r].label,
                                value |-> combined_value(BriefRows[r].detail_key)]]
                       ELSE <<>>,
              keywords |-> Sorted(Range(target_keywords(profiles)))]

\* the texts of the members' sub-queries and keywords
MemberSubQueries == {StrOf(<<"c","o","s","t">>), StrOf(<<"c","o","s","t","s">>)}

\* the ideal_content_profile of a member: absent, an error record, empty,
\* and profiles whose fields are texts, N/A, empty or absent
MemberProfiles ==
    LET Keywords(xs) == PyList(xs) IN
    {KeyMissing,
     PyDict([error |-> PyStr(MsgNoScrape)]),
     EmptyDict,
     PyDict([extractability |-> PyStr("tables"),
             evidence_density |-> PyStr("high"),
             scope_clarity |-> PyStr("buyers"),
             authority_signals |-> PyStr("reviews"),
             freshness |-> PyStr("daily"),
             target_keywords_and_phrasings |->
                 Keywords(<<StrOf(<<"p","r","i","c","e">>),
                            StrOf(<<"c","o","s","t">>)>>)]),
     PyDict([extractability |-> PyStr("lists"),
             evidence_density |-> PyStr("N/A"),
             scope_clarity |-> PyStr(""),
             freshness |-> PyStr("daily"),
             target_keywords_and_phrasings |->
                 Keywords(<<StrOf(<<"p","r","i","c","e">>),
                            StrOf(<<"C","o","s","t">>),
                            StrOf(<<"p","r","i","c","e">>)>>)]),
     PyDict([extractability |-> PyStr("N/A"),
             authority_signals |-> PyStr("citations")])}

Member(sq, icp) == [sub_query |-> sq, ideal_content_profile |-> icp]

InitBrief ==
    /\ MAX_SEARCH_RESULTS = DefaultMaxSearchResults
    /\ MIN_SCRAPABLE_RESULTS = DefaultMinScrapableResults
    /\ INITIAL_SCRAPE_ATTEMPTS = DefaultInitialScrapeAttempts
    /\ INITIAL_DELAY = DefaultInitialDelay
    /\ MAX_RETRIES = DefaultMaxRetries
    /\ backoff = BackoffIdle
    /\ wrapper_calls = 0
    /\ ProfileIdle
    /\ MainIdle
    /\ LedgerFresh
    /\ sub_query_profiles = <<>>
    /\ clusters = <<>>
    /\ profile_i = 0
    /\ cluster_pc = "idle"
    /\ cluster_profiles \in
          SeqsUpTo({Member(sq, icp) : sq \in MemberSubQueries,
                                      icp \in MemberProfiles}, MaxMembers)
    /\ brief = PyNone
    /\ brief_pc = "called"

\* line 116: brief = _synthesize_brief(cluster_name, profiles)
B_SynthesizeBrief ==
    /\ brief_pc = "called"
    /\ \E cluster_name \in {"Cost & Sizing"} :
          brief' = _synthesize_brief(cluster_name, cluster_profiles)
    /\ brief_pc' = "returned"
    /\ UNCHANGED <<cluster_profiles, sub_query_profiles, clusters, profile_i,
                   cluster_pc, cfgVars, backoffVars, profileVars, mainVars,
                   ledgerVars>>

NextBrief == B_SynthesizeBrief

SpecBrief == InitBrief /\ [][NextBrief]_vars

-----------------------------------------------------------------------------
(* The ledger specification: one CostTracker from its creation, with calls *)
(* of start_run, track_gemini_usage, get_summary and end_run.              *)

\* the four fields of the ledger
LedgerState ==
    [gemini_token_usage |-> gemini_token_usage, total_cost |-> total_cost,
     firecrawl_credits_start |-> firecrawl_credits_start,
     firecrawl_credits_end |-> firecrawl_credits_end]

\* arguments of track_gemini_usage
ModelNames == DOMAIN gemini_costs \cup {DefaultModelName}
TokenInputs == {200000, 200004}
TokenOutputs == {1000}

\* one call of get_summary by `caller` in the ledger state `before`, recorded
\* with the ledger before and after it
SummaryCall(caller, before) ==
    [caller |-> caller,
     text |-> get_summary(before.gemini_token_usage, before.total_cost,
                          before.firecrawl_credits_start,
                          before.firecrawl_credits_end),
     before |-> before,
     after |-> LedgerState']

InitLedger ==
    /\ MAX_SEARCH_RESULTS = DefaultMaxSearchResults
    /\ MIN_SCRAPABLE_RESULTS = DefaultMinScrapableResults
    /\ INITIAL_SCRAPE_ATTEMPTS = DefaultInitialScrapeAttempts
    /\ INITIAL_DELAY = DefaultInitialDelay
    /\ MAX_RETRIES = DefaultMaxRetries
    /\ backoff = BackoffIdle
    /\ wrapper_calls = 0
    /\ ProfileIdle
    /\ MainIdle
    /\ ClusterIdle
    /\ firecrawl_api_key \in {"key", "None"}
    /\ TrackerFresh

\* lines 52-56 (main.py line 102)
L_StartRun ==
    /\ tracker_pc = "created"
    /\ \E credit_api \in CreditReplies :
         LET out == get_firecrawl_credits(credit_api) IN
         /\ CreditRequested(credit_api)
         /\ IF out.kind = "raise"
            THEN /\ tracker_pc' = "raised"
                 /\ tracker_error' = out.msg
                 /\ UNCHANGED firecrawl_credits_start
            ELSE /\ firecrawl_credits_start' = out.value
                 /\ tracker_pc' = "started"
                 /\ UNCHANGED tracker_error
    /\ UNCHANGED <<firecrawl_api_key, firecrawl_credits_end, summaries,
                   usageVars, cfgVars, backoffVars, profileVars, mainVars,
                   clusterVars>>

\* lines 67-94
L_Track ==
    /\ tracker_pc \in {"created", "started"}
    /\ Len(tracked) < MaxTracks
    /\ \E model_name \in ModelNames, input_tokens \in TokenInputs,
          output_tokens \in TokenOutputs :
         LET t == track_gemini_usage(gemini_token_usage, total_cost,
                                     model_name, input_tokens, output_tokens) IN
         /\ gemini_token_usage' = t.gemini_token_usage
         /\ total_cost' = t.total_cost
         /\ tracked' = Append(tracked, [model_name |-> model_name,
                                        input_tokens |-> input_tokens,
                                        output_tokens |-> output_tokens])
    /\ UNCHANGED <<gemini_calls, trackerVars, cfgVars, backoffVars,
                   profileVars, mainVars, clusterVars>>

\* the calls of get_summary made from outside the class
DirectSummaries ==
    {i \in 1..Len(summaries) : summaries[i].caller = "get_summary"}

\* a mutant of L_GetSummary: the totals are cleared once reported
L_GetSummaryClears ==
    /\ tracker_pc # "raised"
    /\ Cardinality(DirectSummaries) < MaxSummaries
    /\ gemini_token_usage' = [input |-> 0, output |-> 0]
    /\ total_cost' = 0
    /\ UNCHANGED <<firecrawl_api_key, firecrawl_credits_start,
                   firecrawl_credits_end, tracker_pc, tracker_error,
                   credit_requests, tracked, gemini_calls>>
    /\ summaries' =
         Append(summaries,
                SummaryCall("get_summary", LedgerState))
    /\ UNCHANGED <<cfgVars, backoffVars, profileVars, mainVars, clusterVars>>

\* lines 96-108
L_GetSummary ==
    /\ tracker_pc # "raised"
    /\ Cardinality(DirectSummaries) < MaxSummaries
    /\ UNCHANGED <<firecrawl_api_key, firecrawl_credits_start,
                   firecrawl_credits_end, tracker_pc, tracker_error,
                   credit_requests, usageVars>>
    /\ summaries' = Append(summaries, SummaryCall("get_summary", LedgerState))
    /\ UNCHANGED <<cfgVars, backoffVars, profileVars, mainVars, clusterVars>>

\* lines 58-65 (main.py line 153); file_written tells whether lines 117-121
\* could make the directory and write the file
L_EndRun ==
    /\ tracker_pc = "started"
    /\ \E credit_api \in CreditReplies, file_written \in BOOLEAN :
         LET out == get_firecrawl_credits(credit_api) IN
         /\ CreditRequested(credit_api)
         /\ IF out.kind = "raise"
            THEN /\ tracker_pc' = "raised"
                 /\ tracker_error' = out.msg
                 /\ UNCHANGED <<firecrawl_credits_end, summaries>>
            ELSE /\ firecrawl_credits_end' = out.value
                 /\ UNCHANGED <<firecrawl_credits_start, usageVars>>
                 /\ summaries' = summaries \o
                       <<SummaryCall("log_summary", LedgerState'),
                         SummaryCall("save_summary_to_file", LedgerState')>>
                 /\ IF file_written
                    THEN tracker_pc' = "ended" /\ UNCHANGED tracker_error
                    ELSE tracker_pc' = "raised" /\ tracker_error' = "OSError"
    /\ UNCHANGED <<firecrawl_api_key, firecrawl_credits_start, usageVars,
                   cfgVars, backoffVars, profileVars, mainVars, clusterVars>>

NextLedger == L_StartRun \/ L_Track \/ L_GetSummary \/ L_EndRun

SpecLedger == InitLedger /\ [][NextLedger]_vars

-----------------------------------------------------------------------------
(* Claims about profile_content_competitively.                             *)

ItemProfile(i) == stage2_output[i].ideal_content_profile
\* item i has been left by the for loop
Finished(i) == i < idx /\ pc \in {"for_item", "search", "while", "for_url",
                                   "after_scrape", "synthesis", "done"}
ItemFailures == {"search_raise", "scrape_raise", "synthesis_raise", "malformed"}

(* C1: a failure of one item at any step (the search raises or uses up its *)
(* retries, a scrape raises, the synthesis call raises, its reply is       *)
(* malformed) never makes profile_content_competitively raise: the item    *)
(* gets an error record and every later item is processed.                 *)
C1_FailureIsolated ==
    /\ app # "None" => pc # "raised"
    /\ \A i \in 1..Len(stage2_output) :
          Finished(i) /\ failed_steps[i] \cap ItemFailures # {}
              => ItemProfile(i).t = "error"
    /\ pc = "done" =>
          /\ idx = Len(stage2_output) + 1 \/ stage2_output = <<>>
          /\ \A i \in 1..Len(stage2_output) :
                Truthy(stage2_output[i].sub_query) => i \in searched

C1_Witness ==
    /\ pc = "done"
    /\ Len(stage2_output) = 2
    /\ "malformed" \in failed_steps[1]
    /\ "scrape_raise" \in failed_steps[1]
    /\ ItemProfile(1) = ErrorProfile(MsgStrIndex)
    /\ "search_raise" \in failed_steps[2]
    /\ ItemProfile(2) = ErrorProfile("RATE LIMIT")

(* C2 as stated: when the function returns, every item of the input        *)
(* carries an ideal_content_profile, whatever its sub_query.               *)
C2_Original ==
    pc = "done" =>
        \A i \in 1..Len(stage2_output) : ItemProfile(i) # NoProfile

(* C2, amended: when the function returns, every item whose sub_query is   *)
(* non-empty carries an ideal_content_profile (a profile or an error       *)
(* record); an item whose sub_query is missing or empty is skipped and     *)
(* carries none.                                                           *)
C2_NonEmptyItemsProfiled ==
    pc = "done" =>
        \A i \in 1..Len(stage2_output) :
            IF Truthy(stage2_output[i].sub_query)
            THEN ItemProfile(i) # NoProfile
            ELSE ItemProfile(i) = NoProfile

C2_Witness ==
    /\ pc = "done"
    /\ Len(stage2_output) = 2
    /\ stage2_output[1].sub_query = PyStr("")
    /\ ItemProfile(1) = NoProfile
    /\ stage2_output[2].sub_query = PyStr("a")
    /\ ItemProfile(2) = ErrorProfile(MsgNoScrape)

-----------------------------------------------------------------------------
(* Claims about the scrape-to-threshold loop.                              *)

LoopEnded == loop_exit # "none"
ScrapedUrls == {scraped_content[i].url : i \in 1..Len(scraped_content)}
\* every wrapped scrape call made so far gave a page
AllScrapesSucceeded == Len(scraped_content) = Len(scrape_calls)
\* the loop stopped because urls_to_scrape_count went past MAX_SEARCH_RESULTS
Exhausted == loop_exit = "condition" /\ urls_to_scrape_count > MAX_SEARCH_RESULTS

C4_Conclusion ==
    /\ outer_passes = 1
    /\ urls_to_scrape_count = INITIAL_SCRAPE_ATTEMPTS
    /\ Len(scrape_calls) <= INITIAL_SCRAPE_ATTEMPTS

(* C4 as stated, for the configurations in which the loop runs at all      *)
(* (1 <= MIN_SCRAPABLE_RESULTS <= MAX_SEARCH_RESULTS and                   *)
(* 1 <= INITIAL_SCRAPE_ATTEMPTS <= MAX_SEARCH_RESULTS): with               *)
(* N >= MIN_SCRAPABLE_RESULTS results and every scrape succeeding, the     *)
(* loop ends after exactly one outer pass, with urls_to_scrape_count still *)
(* INITIAL_SCRAPE_ATTEMPTS and at most that many URLs attempted.           *)
C4_Original ==
    /\ LoopEnded
    /\ 1 <= MIN_SCRAPABLE_RESULTS
    /\ MIN_SCRAPABLE_RESULTS <= MAX_SEARCH_RESULTS
    /\ 1 <= INITIAL_SCRAPE_ATTEMPTS
    /\ INITIAL_SCRAPE_ATTEMPTS <= MAX_SEARCH_RESULTS
    /\ Len(top_urls) >= MIN_SCRAPABLE_RESULTS
    /\ AllScrapesSucceeded
    => C4_Conclusion

(* C4, amended: the same, provided 1 <= MIN_SCRAPABLE_RESULTS <=           *)
(* INITIAL_SCRAPE_ATTEMPTS <= MAX_SEARCH_RESULTS and the first             *)
(* INITIAL_SCRAPE_ATTEMPTS results hold at least MIN_SCRAPABLE_RESULTS     *)
(* distinct URLs.                                                          *)
C4_OnePassWhenAllSucceed ==
    /\ LoopEnded
    /\ 1 <= MIN_SCRAPABLE_RESULTS
    /\ MIN_SCRAPABLE_RESULTS <= INITIAL_SCRAPE_ATTEMPTS
    /\ INITIAL_SCRAPE_ATTEMPTS <= MAX_SEARCH_RESULTS
    /\ Cardinality(Range(Slice(top_urls, INITIAL_SCRAPE_ATTEMPTS)))
          >= MIN_SCRAPABLE_RESULTS
    /\ AllScrapesSucceeded
    => C4_Conclusion /\ loop_exit = "break"
       /\ Len(scraped_content) = MIN_SCRAPABLE_RESULTS

C4_Witness ==
    /\ loop_exit = "break"
    /\ MIN_SCRAPABLE_RESULTS = 2
    /\ INITIAL_SCRAPE_ATTEMPTS = 3
    /\ MAX_SEARCH_RESULTS = 5
    /\ top_urls = <<1, 2, 3, 4, 5>>
    /\ scrape_calls = <<1, 2>>
    /\ AllScrapesSucceeded
    /\ outer_passes = 1
    /\ urls_to_scrape_count = 3

\* of the URLs scraped so far, the 5th of the list succeeded and no other did
OnlyFifthSucceeds ==
    /\ Len(top_urls) >= 5
    /\ \A j \in 1..Len(scrape_calls) :
          scrape_calls[j] \in ScrapedUrls <=> scrape_calls[j] = top_urls[5]

C5_Conclusion ==
    /\ Len(scrape_calls) >= 5
    /\ Last(scrape_calls) = top_urls[5]
    /\ ScrapedUrls = {top_urls[5]}
    /\ loop_exit = "break"
    /\ urls_to_scrape_count = INITIAL_SCRAPE_ATTEMPTS + outer_passes - 1

(* C5 as stated, for the configurations in which the loop runs at all      *)
(* (1 <= INITIAL_SCRAPE_ATTEMPTS <= MAX_SEARCH_RESULTS): with              *)
(* MIN_SCRAPABLE_RESULTS = 1 and only the 5th URL ever succeeding, the     *)
(* loop ends having attempted at least 5 URLs, the 5th being the last      *)
(* one scraped, with no widening after it.                                 *)
C5_Original ==
    /\ LoopEnded
    /\ MIN_SCRAPABLE_RESULTS = 1
    /\ 1 <= INITIAL_SCRAPE_ATTEMPTS
    /\ INITIAL_SCRAPE_ATTEMPTS <= MAX_SEARCH_RESULTS
    /\ OnlyFifthSucceeds
    => C5_Conclusion

(* C5, amended: the same, provided INITIAL_SCRAPE_ATTEMPTS <=              *)
(* MAX_SEARCH_RESULTS, MAX_SEARCH_RESULTS >= 5 and the first five URLs     *)
(* are distinct; and from the 5th URL's success on no scrape call and no   *)
(* widening follows.                                                       *)
C5_WidensToFifth ==
    /\ MIN_SCRAPABLE_RESULTS = 1
    /\ INITIAL_SCRAPE_ATTEMPTS <= MAX_SEARCH_RESULTS
    /\ MAX_SEARCH_RESULTS >= 5
    /\ OnlyFifthSucceeds
    /\ Cardinality(Range(SubSeq(top_urls, 1, 5))) = 5
    => /\ LoopEnded => C5_Conclusion
       /\ top_urls[5] \in ScrapedUrls => LoopEnded /\ C5_Conclusion

C5_Witness ==
    /\ LoopEnded
    /\ MIN_SCRAPABLE_RESULTS = 1
    /\ INITIAL_SCRAPE_ATTEMPTS = 3
    /\ MAX_SEARCH_RESULTS = 5
    /\ OnlyFifthSucceeds
    /\ scrape_calls = <<1, 2, 3, 4, 5>>
    /\ outer_passes = 3
    /\ urls_to_scrape_count = 5
    /\ pc = "done"

(* C6 as stated: when the scrape loop ends because the attempts used up    *)
(* MAX_SEARCH_RESULTS with fewer than MIN_SCRAPABLE_RESULTS pages          *)
(* scraped, the item gets an error and the synthesis is not called.        *)
C6_Original ==
    Exhausted /\ Len(scraped_content) < MIN_SCRAPABLE_RESULTS =>
        /\ pc # "synthesis"
        /\ Finished(1) => ItemProfile(1).t = "error" /\ 1 \notin synthesized

(* C6, amended: when the scrape loop ends, by using up MAX_SEARCH_RESULTS  *)
(* or otherwise, with no page scraped at all, the item gets the error      *)
(* "Could not scrape top search results." and the synthesis is not called; *)
(* when the attempts are used up with at least one page but fewer than     *)
(* MIN_SCRAPABLE_RESULTS, the synthesis is called with the pages scraped.  *)
C6_NoPageNoSynthesis ==
    /\ LoopEnded /\ scraped_content = <<>> =>
          /\ pc # "synthesis"
          /\ Finished(1) =>
                ItemProfile(1) = ErrorProfile(MsgNoScrape) /\ 1 \notin synthesized
    /\ Exhausted /\ scraped_content # <<>> =>
          /\ pc \in {"after_scrape", "synthesis", "for_item", "done"}
          /\ Finished(1) => 1 \in synthesized

C6_Witness ==
    /\ Exhausted
    /\ MIN_SCRAPABLE_RESULTS = 2
    /\ scraped_content = <<>>
    /\ Len(scrape_calls) >= 2
    /\ pc = "done"
    /\ ItemProfile(1) = ErrorProfile(MsgNoScrape)
    /\ synthesized = {}

-----------------------------------------------------------------------------
(* C17: an item for which no page at all was scraped.                      *)

\* line 142 is reached with an empty scraped_content
ZeroPagesScraped == pc = "after_scrape" /\ scraped_content = <<>>

\* lines 143-145: the error record is set, no synthesis call is made, and the
\* for loop goes to the next item
ZeroPagesStep ==
    ZeroPagesScraped =>
        /\ stage2_output' =
             [stage2_output EXCEPT
                 ![idx].ideal_content_profile = ErrorProfile(MsgNoScrape)]
        /\ synthesized' = synthesized
        /\ idx' = idx + 1
        /\ pc' = "for_item"

\* the items whose profile is the error record of line 144
CouldNotScrape ==
    {i \in 1..Len(stage2_output) : ItemProfile(i) = ErrorProfile(MsgNoScrape)}

\* C17: the step taken when zero pages were scraped for a sub-query sets the
\* item's ideal_content_profile to the error record "Could not scrape top
\* search results.", makes no synthesis call and goes on to the next item;
\* the synthesis call is only ever reached with at least one scraped page,
\* and no item with that error record had a synthesis call.
C17_ZeroPagesNeverSynthesized ==
    /\ [][ZeroPagesStep]_vars
    /\ [](pc = "synthesis" => scraped_content # <<>>)
    /\ [](CouldNotScrape \cap synthesized = {})

C17_Witness ==
    /\ pc = "done"
    /\ Len(stage2_output) = 2
    /\ 1 \in searched
    /\ "no_scrape" \in failed_steps[1]
    /\ ItemProfile(1) = ErrorProfile(MsgNoScrape)
    /\ synthesized = {2}

-----------------------------------------------------------------------------
(* C11: the pipeline on well-formed replies and two pages per sub-query.   *)

\* the five descriptive fields of a content profile
ProfileFields == {"extractability", "evidence_density", "scope_clarity",
                  "authority_signals", "freshness"}

\* a profile without error in which the five fields are populated
PopulatedProfile(profile) ==
    /\ profile.t = "dict"
    /\ "error" \notin DOMAIN profile.d
    /\ \A f \in ProfileFields : f \in DOMAIN profile.d /\ Truthy(profile.d[f])

\* generate_content answered with a JSON object whose ideal_content_profile
\* is a profile with all its fields
WellFormedSynthesis(call) ==
    /\ call.caller = "profile_content_competitively"
    /\ call.api.kind = "return"
    /\ call.api.value.t = "text"
    /\ call.api.value.body.wf
    /\ call.api.value.body.value.t = "dict"
    /\ "ideal_content_profile" \in DOMAIN call.api.value.body.value.d
    /\ PopulatedProfile(call.api.value.body.value.d.ideal_content_profile)

\* both collaborators behaved for every item: each item has a sub-query, no
\* search and no scrape failed, the last item's scrape loop ended with two
\* pages out of two scrape calls, and there was one synthesis call per item,
\* each answered with a well-formed profile
CollaboratorsWellBehaved ==
    /\ client_instance = "Client"
    /\ stage2_output # <<>>
    /\ \A i \in 1..Len(stage2_output) :
          /\ Truthy(stage2_output[i].sub_query)
          /\ failed_steps[i] \cap
                {"search_raise", "search_reply", "scrape_raise", "no_scrape"} = {}
    /\ Len(scraped_content) = 2
    /\ Len(scrape_calls) = 2
    /\ Len(gemini_calls) = Len(stage2_output)
    /\ \A k \in 1..Len(gemini_calls) : WellFormedSynthesis(gemini_calls[k])

(* C11 (its profiling part; expand_query and route_subqueries return the   *)
(* well-formed replies of their collaborator as they are): when            *)
(* profile_content_competitively has returned and the collaborators were   *)
(* well behaved for every item, every item has an ideal_content_profile    *)
(* without error in which the five fields are populated.                   *)
C11_WellFormedRunProfilesAll ==
    pc = "done" /\ CollaboratorsWellBehaved =>
        \A i \in 1..Len(stage2_output) : PopulatedProfile(ItemProfile(i))

-----------------------------------------------------------------------------
(* Claims about expand_query and route_subqueries.                         *)

\* the distinct sub-query strings of the three sequence fields
DistinctSubQueries(stage1_output) ==
    Range(JoinedSubQueries(stage1_output).value.xs)

(* C3: whenever route_subqueries returns, the length of its output equals  *)
(* the number of distinct sub-query strings of the three sequence fields   *)
(* of its input, on the reply path and on the fallback path.               *)
C3_RouteLengthEqualsDistinct ==
    main_pc = "stage3" =>
        Len(stage2_data.xs) = Cardinality(DistinctSubQueries(stage1_data))

(* C10: for a non-empty query, whatever the text-generation collaborator   *)
(* does, the value expand_query returns holds the three sequence fields,   *)
(* each of them a list.                                                    *)
C10_SequenceFieldsPresent ==
    main_pc \in {"stage2", "stage3", "raised"} /\ initial_query # "" =>
        \A i \in 1..Len(SeqFields) :
            /\ SeqFields[i] \in DOMAIN stage1_data.d
            /\ stage1_data.d[SeqFields[i]].t = "list"

-----------------------------------------------------------------------------
(* C12: expand_query when its collaborator fails.                          *)

\* the collaborator of the expansion failed: no client is configured, or
\* generate_content raised, or its reply has no text, or a text that is no
\* JSON, or a JSON text that is no object
ExpansionFailed ==
    \/ client_instance = "None"
    \/ LET api == gemini_calls[1].api IN
       \/ api.kind = "raise"
       \/ api.value.t # "text"
       \/ ~api.value.body.wf
       \/ api.value.body.value.t # "dict"

(* C12: when expand_query has returned and its collaborator failed, the    *)
(* value it returned has error set and holds the three sequence fields,    *)
(* each an empty list.                                                     *)
C12_FailedExpansionIsEmpty ==
    main_pc \in {"stage2", "stage3", "raised"} /\ ExpansionFailed =>
        /\ "error" \in DOMAIN stage1_data.d
        /\ \A i \in 1..Len(SeqFields) :
              /\ SeqFields[i] \in DOMAIN stage1_data.d
              /\ stage1_data.d[SeqFields[i]] = PyList(<<>>)

-----------------------------------------------------------------------------
(* C13: route_subqueries when its collaborator fails.                      *)

\* route_subqueries has reached its collaborator call (lines 43-51 passed)
\* and the function is over
RoutingCalled ==
    /\ main_pc \in {"stage3", "raised"}
    /\ JoinedSubQueries(stage1_data).kind = "return"
    /\ DistinctSubQueries(stage1_data) # {}

\* lines 88-96: call_gemini_api raised, or what it returned is no list
RoutingFailed ==
    \/ client_instance = "None"
    \/ LET routed_queries ==
               call_gemini_api(Last(gemini_calls).api, "application/json") IN
       \/ routed_queries.kind = "raise"
       \/ routed_queries.value.t # "list"

\* a fallback item of lines 104-109
IsFallbackItem(item) ==
    /\ item.t = "dict"
    /\ DOMAIN item.d = {"sub_query", "predicted_source_types",
                        "predicted_modality", "error"}
    /\ item.d.predicted_source_types = PyList(<<PyStr("unknown")>>)
    /\ item.d.predicted_modality = PyStr("unknown")
    /\ item.d.error.t = "str"

(* C13: when the collaborator call of route_subqueries raised or its reply *)
(* was not a list, route_subqueries did not raise and returned a list of   *)
(* fallback items, one for each distinct sub-query of its input and no     *)
(* other: as many items as distinct sub-queries, their sub_query values    *)
(* being exactly the distinct sub-queries.                                 *)
C13_FallbackPerSubQuery ==
    RoutingCalled /\ RoutingFailed =>
        /\ main_pc = "stage3"
        /\ stage2_data.t = "list"
        /\ Len(stage2_data.xs) = Cardinality(DistinctSubQueries(stage1_data))
        /\ \A k \in 1..Len(stage2_data.xs) : IsFallbackItem(stage2_data.xs[k])
        /\ {stage2_data.xs[k].d.sub_query : k \in 1..Len(stage2_data.xs)}
              = DistinctSubQueries(stage1_data)

C13_Witness ==
    /\ RoutingCalled
    /\ client_instance = "Client"
    /\ Len(gemini_calls) = 2
    /\ gemini_calls[2].caller = "route_subqueries"
    /\ gemini_calls[2].api.kind = "return"
    /\ call_gemini_api(gemini_calls[2].api, "application/json").value.t = "dict"
    /\ DistinctSubQueries(stage1_data) = {PyStr("a"), PyStr("b")}
    /\ Len(stage2_data.xs) = 2
    /\ stage2_data.xs[1].d.error = PyStr(MsgNotList)

-----------------------------------------------------------------------------
(* C14: route_subqueries on an input without sub-queries.                  *)

\* each of the three sequence fields is missing or an empty list
NoSubQueries(stage1_output) ==
    \A i \in 1..Len(SeqFields) :
        \/ SeqFields[i] \notin DOMAIN stage1_output.d
        \/ stage1_output.d[SeqFields[i]] = PyList(<<>>)

\* the call of route_subqueries on such an input
EmptyRouteStep ==
    main_pc = "stage2" /\ NoSubQueries(stage1_data) =>
        /\ main_pc' = "stage3"
        /\ stage2_data' = PyList(<<>>)
        /\ gemini_calls' = gemini_calls
        /\ LedgerState' = LedgerState
        /\ tracked' = tracked

(* C14: a call of route_subqueries on an ExpansionResult whose three       *)
(* sequence fields are all empty or missing returns an empty list, makes   *)
(* no call of the text-generation collaborator and leaves the ledger       *)
(* (token counts, total cost, credit snapshots) as it was.                 *)
C14_EmptyInputNoCall == [][EmptyRouteStep]_vars

C14_Witness ==
    /\ main_pc = "stage3"
    /\ NoSubQueries(stage1_data)
    /\ "projected_latent_intents" \notin DOMAIN stage1_data.d
    /\ stage2_data = PyList(<<>>)
    /\ Len(gemini_calls) = 1
    /\ gemini_calls[1].caller = "expand_query"
    /\ gemini_token_usage = [input |-> 1200, output |-> 300]

-----------------------------------------------------------------------------
(* Claims about _cluster_subqueries.                                       *)

\* the positions of the returned mapping whose member list holds the profile
ClustersHolding(profile) ==
    {j \in 1..Len(clusters) : profile \in Range(clusters[j].profiles)}

RECURSIVE TotalMembers(_)
TotalMembers(dict) ==
    IF dict = <<>> THEN 0
    ELSE Len(dict[1].profiles) + TotalMembers(Tail(dict))

(* C8: for any list of profiles _cluster_subqueries does not fail, and     *)
(* when it returns every input item is in exactly one cluster: the member  *)
(* lists are pairwise disjoint and their sizes sum to the input length.    *)
C8_EveryItemInExactlyOneCluster ==
    /\ cluster_pc # "raised"
    /\ cluster_pc = "returned" =>
          /\ \A i \in 1..Len(sub_query_profiles) :
                Cardinality(ClustersHolding(sub_query_profiles[i])) = 1
          /\ TotalMembers(clusters) = Len(sub_query_profiles)

DeclaredOrder ==
    <<"Cost & Sizing", "How-To & Logistics", "Comparison & Alternatives",
      "Benefits & Reasons", "Definitions & Concepts", "Problem & Solution">>

\* the sub-query text of the profile, lowered, matches a keyword of the c-th
\* cluster definition
MatchesCluster(profile, c) ==
    AnyKeyword(cluster_keywords[c].keywords, Lower(profile.sub_query.s))

(* C9: the cluster definitions are declared in the order Cost & Sizing,    *)
(* How-To & Logistics, Comparison & Alternatives, Benefits & Reasons,      *)
(* Definitions & Concepts, Problem & Solution; every item the loop has     *)
(* placed is in the earliest-declared cluster a keyword of which matches   *)
(* its sub-query text, and in General Information when none matches.       *)
C9_FirstDeclaredClusterWins ==
    /\ DeclaredOrder =
          [c \in 1..Len(cluster_keywords) |-> cluster_keywords[c].cluster_name]
    /\ \A i \in 1..(profile_i - 1) :
          LET profile == sub_query_profiles[i]
              matching == {c \in 1..Len(DeclaredOrder) : MatchesCluster(profile, c)}
          IN  /\ ClustersHolding(profile) # {}
              /\ \A j \in ClustersHolding(profile) :
                    IF matching = {}
                    THEN clusters[j].cluster_name = "General Information"
                    ELSE \E c \in matching :
                           /\ clusters[j].cluster_name = DeclaredOrder[c]
                           /\ \A d \in matching : c <= d

\* "Best PRICE guide" matches keywords of three definitions, "hotel" of none
C9_Witness ==
    /\ cluster_pc = "returned"
    /\ Len(sub_query_profiles) = 2
    /\ sub_query_profiles[1].sub_query =
          StrOf(<<"B","e","s","t"," ","P","R","I","C","E"," ","g","u","i","d","e">>)
    /\ {c \in 1..Len(DeclaredOrder) : MatchesCluster(sub_query_profiles[1], c)}
          = {1, 2, 3}
    /\ sub_query_profiles[2].sub_query = StrOf(<<"h","o","t","e","l">>)
    /\ clusters =
          <<[cluster_name |-> "Cost & Sizing",
             profiles |-> <<sub_query_profiles[1]>>],
            [cluster_name |-> "General Information",
             profiles |-> <<sub_query_profiles[2]>>]>>

-----------------------------------------------------------------------------
(* C7: a call that fails with a rate-limit error exactly MAX_RETRIES - 1   *)
(* times and then succeeds makes the wrapper return the success value,     *)
(* having slept exactly MAX_RETRIES - 1 times, the k-th sleep lasting      *)
(* INITIAL_DELAY * 2^(k-1).                                                *)

FailsThenSucceeds(calls) ==
    /\ MAX_RETRIES >= 1
    /\ Len(calls) = MAX_RETRIES
    /\ \A i \in 1..(MAX_RETRIES - 1) :
          calls[i].kind = "raise" /\ IsRateLimit(calls[i].msg)
    /\ calls[MAX_RETRIES].kind = "return"

C7_BackoffDoubling ==
    FailsThenSucceeds(backoff.calls) =>
        /\ backoff.status = "returned"
        /\ backoff.result = backoff.calls[MAX_RETRIES]
        /\ backoff.slept =
             [k \in 1..(MAX_RETRIES - 1) |-> INITIAL_DELAY * 2^(k - 1)]

C7_Witness ==
    /\ FailsThenSucceeds(backoff.calls)
    /\ MAX_RETRIES = 3
    /\ INITIAL_DELAY = DefaultInitialDelay
    /\ backoff.slept = <<5, 10>>
    /\ backoff.result.value = [t |-> "str", s |-> "page"]

-----------------------------------------------------------------------------
(* C15: a call whose every attempt fails with a rate-limit error.          *)

\* the call of the wrapper has ended
BackoffEnded == backoff.status \in {"returned", "raised"}

\* line 43: the n-th call of crawl_function raised a rate-limit error
RateLimited(calls, n) ==
    calls[n].kind = "raise" /\ IsRateLimit(calls[n].msg)

\* there was an attempt, and every attempt failed with a rate-limit error
EveryAttemptRateLimited(calls) ==
    /\ calls # <<>>
    /\ \A n \in 1..Len(calls) : RateLimited(calls, n)

\* C15: when the call has ended and every attempt it made failed with a
\* rate-limit error, the wrapped function was called exactly MAX_RETRIES
\* times, there were exactly MAX_RETRIES - 1 sleeps (one after each failed
\* attempt but the last), and the call raised the error of the last attempt.
C15_ExhaustedRetriesRaiseLast ==
    BackoffEnded /\ EveryAttemptRateLimited(backoff.calls) =>
        /\ Len(backoff.calls) = MAX_RETRIES
        /\ Len(backoff.slept) = MAX_RETRIES - 1
        /\ backoff.status = "raised"
        /\ backoff.result = Last(backoff.calls)

C15_Witness ==
    /\ BackoffEnded
    /\ EveryAttemptRateLimited(backoff.calls)
    /\ MAX_RETRIES = 3
    /\ Len(backoff.calls) = 3
    /\ backoff.slept = <<1, 2>>
    /\ backoff.result = Raise("RATE LIMIT")

-----------------------------------------------------------------------------
(* C16: an error that is not a rate-limit error.                           *)

\* line 51: the n-th call of crawl_function raised another kind of error
OtherError(calls, n) ==
    calls[n].kind = "raise" /\ ~IsRateLimit(calls[n].msg)

\* C16: at every moment, if the n-th call of the wrapped function raised an
\* error that is not a rate-limit error, then that call is the last one, the
\* wrapper has raised that very error, and the only sleeps are those of the
\* n - 1 rate-limit retries that came before it.
C16_OtherErrorRaisedAtOnce ==
    \A n \in 1..Len(backoff.calls) :
        OtherError(backoff.calls, n) =>
            /\ n = Len(backoff.calls)
            /\ backoff.status = "raised"
            /\ backoff.result = backoff.calls[n]
            /\ Len(backoff.slept) = n - 1
            /\ \A k \in 1..(n - 1) : RateLimited(backoff.calls, k)

C16_Witness ==
    /\ Len(backoff.calls) = 3
    /\ MAX_RETRIES = 3
    /\ RateLimited(backoff.calls, 1)
    /\ RateLimited(backoff.calls, 2)
    /\ backoff.calls[3] = Raise("timeout")
    /\ backoff.status = "raised"
    /\ backoff.result = Raise("timeout")
    /\ backoff.slept = <<5, 10>>

-----------------------------------------------------------------------------
(* Claims about the CostTracker.                                           *)

\* a step that is a call of track_gemini_usage, its arguments being the last
\* entry of tracked afterwards
TrackStep ==
    Len(tracked') = Len(tracked) + 1 =>
        LET call == Last(tracked') IN
        /\ gemini_token_usage'.input =
              gemini_token_usage.input + call.input_tokens
        /\ gemini_token_usage'.output =
              gemini_token_usage.output + call.output_tokens
        /\ call.model_name \notin DOMAIN gemini_costs =>
              total_cost' = total_cost

(* C18: every call track_gemini_usage(model, i, o) adds exactly i to the   *)
(* input token count and exactly o to the output token count, whatever     *)
(* the model name; when the model name is not in the pricing table, the    *)
(* call leaves total_cost unchanged.                                       *)
C18_TokensAlwaysCounted == [][TrackStep]_vars

C18_Witness ==
    /\ Len(tracked) = 2
    /\ tracked[1].model_name = "gemini-1.5-pro-latest"
    /\ tracked[1].input_tokens = 200004
    /\ tracked[2].model_name = DefaultModelName
    /\ tracked[2].input_tokens = 200000
    /\ gemini_token_usage = [input |-> 400004, output |-> 2000]
    /\ total_cost = 257505000

(* C19: get_summary has no side effect and is idempotent: every call       *)
(* leaves the token counts, total_cost and both credit snapshots as they   *)
(* were, and any two calls made in the same ledger state (two consecutive  *)
(* calls in particular) return the same text.                              *)
C19_SummaryIsPure ==
    /\ \A i \in 1..Len(summaries) : summaries[i].after = summaries[i].before
    /\ \A i, j \in 1..Len(summaries) :
          summaries[i].before = summaries[j].before =>
              summaries[i].text = summaries[j].text

C19_Witness ==
    /\ Len(summaries) = 2
    /\ summaries[1].caller = "get_summary"
    /\ summaries[2].caller = "get_summary"
    /\ summaries[1].before = summaries[2].before
    /\ summaries[1].text = summaries[2].text
    /\ summaries[1].text.input_tokens = 200004
    /\ summaries[1].text.cost = 71051
    /\ LedgerState = summaries[2].before

(* C20: start_run and end_run never fail because of the credit snapshot    *)
(* (the only error that leaves them is one of writing the summary file),   *)
(* and when the key is absent or the credit request fails, the snapshot    *)
(* they record is None. The credit requests of start_run and end_run are  *)
(* the first and the second entry of credit_requests.                      *)
C20_SnapshotNeverFails ==
    /\ tracker_pc = "raised" => tracker_error = "OSError"
    /\ tracker_pc \in {"started", "ended"}
       /\ (firecrawl_api_key = "None" \/ credit_requests[1].kind = "raise")
          => firecrawl_credits_start = PyNone
    /\ tracker_pc = "ended"
       /\ (firecrawl_api_key = "None" \/ credit_requests[2].kind = "raise")
          => firecrawl_credits_end = PyNone

-----------------------------------------------------------------------------
(* Claims about _synthesize_brief.                                         *)

\* the call returned the brief of a cluster that has members
BriefReturned == brief_pc = "returned" /\ cluster_profiles # <<>>

(* C21: for a non-empty cluster, each of the five rows of the brief joins  *)
(* the values of its field of all the members whose profile holds no       *)
(* error (empty and N/A values left out), in the order of the members and  *)
(* not of the first member only, and the keyword list holds the sub_query  *)
(* of every member and every target keyword of every member, each exactly  *)
(* once.                                                                   *)
C21_BriefAggregatesAllMembers ==
    BriefReturned =>
        LET members == 1..Len(cluster_profiles)
            ideal(i) == IdealProfile(cluster_profiles[i])
            valued(i, key) ==
                /\ "error" \notin DOMAIN ideal(i).d
                /\ key \in DOMAIN ideal(i).d
                /\ ideal(i).d[key] \notin {PyStr(""), PyStr("N/A")}
            listed(i) ==
                IF "target_keywords_and_phrasings" \in DOMAIN ideal(i).d
                THEN Range(ideal(i).d.target_keywords_and_phrasings.xs)
                ELSE {}
        IN  /\ ~brief.note =>
                \A r \in 1..Len(BriefRows) :
                    LET key == BriefRows[r].detail_key
                        contributors == {i \in members : valued(i, key)}
                        value == brief.rows[r].value
                    IN  IF contributors = {} THEN value = PyStr("N/A")
                        ELSE /\ value.t = "joined"
                             /\ Len(value.parts) = Cardinality(contributors)
                             /\ \A i \in contributors :
                                   LET n == Cardinality({j \in contributors :
                                                            j <= i})
                                   IN  value.parts[n] = ideal(i).d[key]
            /\ brief.note = (\A i \in members : "error" \in DOMAIN ideal(i).d)
            /\ Range(brief.keywords) =
                  {cluster_profiles[i].sub_query : i \in members}
                      \cup UNION {listed(i) : i \in members}
            /\ \A m, n \in 1..Len(brief.keywords) :
                  brief.keywords[m] = brief.keywords[n] => m = n

\* two members without an error give the same row two values, their keyword
\* lists repeat a keyword and name the other member's sub-query
C21_Witness ==
    /\ BriefReturned
    /\ Len(cluster_profiles) = 2
    /\ cluster_profiles[1].sub_query # cluster_profiles[2].sub_query
    /\ ~brief.note
    /\ brief.rows[1].value = Join("; ", <<PyStr("lists"), PyStr("tables")>>)
    /\ brief.rows[2].value = Join("; ", <<PyStr("high")>>)
    /\ Len(brief.keywords) = 4

-----------------------------------------------------------------------------
(* Claims about missing credentials.                                       *)

(* C22: a collaborator whose credentials are missing makes the run fail at *)
(* the entry of the first stage that uses it, before any call to it:       *)
(* without the text-generation client the run ends in an error raised by   *)
(* the expansion stage and holds no expansion result, and without the      *)
(* search/scrape client it ends in an error raised at the entry of the     *)
(* profiling stage, no search made.                                        *)
C22_MissingCredentialsAreFatal ==
    /\ client_instance = "None" /\ main_pc \in {"stage2", "stage3", "raised"}
          => main_pc = "raised" /\ stage1_data = PyNone /\ gemini_calls = <<>>
    /\ app = "None" /\ pc \notin {"idle", "entry"}
          => pc = "raised" /\ searched = {}

-----------------------------------------------------------------------------
(* Claims about the scrape-to-threshold loop of one sub-query.             *)

\* the distinct URLs among the first MAX_SEARCH_RESULTS search results
FirstUrls == Range(Slice(top_urls, MAX_SEARCH_RESULTS))

(* C23, as the claim states it: the loop terminates, and at termination    *)
(* at least MIN_SCRAPABLE_RESULTS pages were scraped or every distinct URL *)
(* among the first MAX_SEARCH_RESULTS search results has been attempted,   *)
(* for every configuration.                                                *)
C23_Original ==
    /\ <>LoopEnded
    /\ [](LoopEnded =>
            \/ Len(scraped_content) >= MIN_SCRAPABLE_RESULTS
            \/ FirstUrls \subseteq attempted_urls)

(* C23: for every search result list, every pattern of scrape successes    *)
(* and failures and every configuration, the loop terminates, and at       *)
(* termination at least MIN_SCRAPABLE_RESULTS pages were scraped or        *)
(* urls_to_scrape_count has passed MAX_SEARCH_RESULTS; in the latter case, *)
(* when INITIAL_SCRAPE_ATTEMPTS <= MAX_SEARCH_RESULTS, every distinct URL  *)
(* among the first MAX_SEARCH_RESULTS search results has been attempted.   *)
C23_LoopTerminates ==
    /\ <>LoopEnded
    /\ [](LoopEnded =>
            \/ Len(scraped_content) >= MIN_SCRAPABLE_RESULTS
            \/ /\ urls_to_scrape_count > MAX_SEARCH_RESULTS
               /\ INITIAL_SCRAPE_ATTEMPTS <= MAX_SEARCH_RESULTS
                     => FirstUrls \subseteq attempted_urls)

\* the loop ran out of URLs after three passes, one page short
C23_Witness ==
    /\ Exhausted
    /\ outer_passes = 3
    /\ MIN_SCRAPABLE_RESULTS = 2
    /\ Len(scraped_content) = 1
    /\ Cardinality(FirstUrls) = 3
    /\ attempted_urls = FirstUrls


\* the search results not attempted so far, in search-rank order
Unattempted(urls) == SelectSeq(urls, LAMBDA u : u \notin attempted_urls)

(* C24, as the claim states it: the URLs an outer pass considers are the   *)
(* first urls_to_scrape_count of the search-result URLs that have not yet  *)
(* been attempted, in search-rank order.                                   *)
C24_Original ==
    [][pc = "while" /\ pc' = "for_url" =>
          Unattempted(urls_for_this_attempt')
              = Slice(Unattempted(top_urls), urls_to_scrape_count)]_vars

\* a step of the loop: a scrape call is made on the first of the first
\* urls_to_scrape_count search results that was not attempted, before the
\* threshold is met, the URL is marked attempted whatever the call gave, and
\* the inner loop is left as soon as the threshold is met; a pass that ends
\* short of the threshold has attempted all of those results
PassStep ==
    /\ scrape_calls' # scrape_calls =>
          LET url == Last(scrape_calls')
              considered == Slice(top_urls, urls_to_scrape_count)
          IN  /\ scrape_calls' = Append(scrape_calls, url)
              /\ Len(scraped_content) < MIN_SCRAPABLE_RESULTS
              /\ url \notin attempted_urls
              /\ attempted_urls' = attempted_urls \cup {url}
              /\ \E n \in 1..Len(considered) :
                    /\ considered[n] = url
                    /\ \A m \in 1..(n - 1) : considered[m] \in attempted_urls
              /\ Len(scraped_content') >= MIN_SCRAPABLE_RESULTS
                    => pc' = "after_scrape" /\ loop_exit' = "break"
    /\ scrape_calls' = scrape_calls => attempted_urls' = attempted_urls
    /\ pc = "for_url" /\ pc' = "while" =>
          /\ Range(Slice(top_urls, urls_to_scrape_count))
                \subseteq attempted_urls
          /\ Len(scraped_content) < MIN_SCRAPABLE_RESULTS

(* C24: in each outer pass of the scrape loop, the URLs scraped are those  *)
(* of the first urls_to_scrape_count search results (top_urls[:count])     *)
(* that have not yet been attempted, in search-rank order; each one        *)
(* scraped is marked attempted whatever the outcome, and the inner loop    *)
(* stops as soon as MIN_SCRAPABLE_RESULTS pages have been scraped.         *)
C24_PassScrapesUnattemptedOfFirstN == [][PassStep]_vars

\* the second pass of a loop over five results ended having scraped the
\* fourth result only, a scrape call having raised
C24_Witness ==
    /\ pc = "for_url"
    /\ outer_passes = 2
    /\ url_i > Len(urls_for_this_attempt)
    /\ Len(top_urls) = 5
    /\ scrape_calls = <<1, 2, 3, 4>>
    /\ attempted_urls = {1, 2, 3, 4}
    /\ scraped_content = <<>>
    /\ last_scrape = "raised"

-----------------------------------------------------------------------------
(* Claims about the search reply of one sub-query.                         *)

\* the search reply, as lines 94-98 leave it in search_results, is empty or
\* is no sequence
UnusableSearch(reply) ==
    reply # Unassigned /\ (~Truthy(reply) \/ reply.t # "list")

\* the errors app.search raises, which are the errors the wrapper lets out
SearchErrors ==
    UNION {{script[i].msg : i \in {j \in 1..Len(script) : script[j].kind = "raise"}} :
             script \in SearchScripts}

\* line 87 returned: the step of the search assigned search_results. A call
\* that raises leaves in it what the item before had, and gives the item the
\* error of the collaborator
SearchReturned ==
    /\ pc = "search"
    /\ \A msg \in SearchErrors :
           stage2_output'[idx].ideal_content_profile # ErrorProfile(msg)

\* the step of the search whose reply is empty or no sequence: the item gets
\* the error record of line 91 or 102, no scrape and no synthesis call is
\* made and the for loop goes to the next item; a reply that wraps an empty
\* list enters the scrape loop with no URL
UnusableSearchStep ==
    SearchReturned /\ UnusableSearch(search_results') =>
        \/ /\ \E msg \in {MsgNoResults} \cup
                          {MsgBadType(res) :
                             res \in {v \in {search_results'} : v.t # "list"}} :
                stage2_output' =
                   [stage2_output EXCEPT
                       ![idx].ideal_content_profile = ErrorProfile(msg)]
           /\ scrape_calls' = <<>>
           /\ synthesized' = synthesized
           /\ gemini_calls' = gemini_calls
           /\ idx' = idx + 1
           /\ pc' = "for_item"
        \/ /\ search_results' = PyList(<<>>)
           /\ top_urls' = <<>>
           /\ scrape_calls' = <<>>
           /\ pc' = "while"

\* the end of a scrape loop that had no URL
NoUrlStep ==
    pc = "after_scrape" /\ UnusableSearch(search_results) =>
        /\ stage2_output' =
             [stage2_output EXCEPT
                 ![idx].ideal_content_profile = ErrorProfile(MsgNoScrape)]
        /\ synthesized' = synthesized
        /\ gemini_calls' = gemini_calls
        /\ idx' = idx + 1
        /\ pc' = "for_item"

(* C25: if the search reply for a sub-query is empty or cannot be coerced  *)
(* to a sequence of results, the item's ideal_content_profile is set to an *)
(* error record, no scrape call and no synthesis call is made for that     *)
(* item, and processing continues with the next item.                      *)
C25_UnusableSearchIsAnError ==
    /\ [][UnusableSearchStep /\ NoUrlStep]_vars
    /\ [](UnusableSearch(search_results) =>
             /\ scrape_calls = <<>>
             /\ pc # "synthesis")

\* the first item's search gave a str, the second one's an object that wraps
\* an empty list, and both items ended with an error record
C25_Witness ==
    /\ pc = "done"
    /\ Len(stage2_output) = 2
    /\ stage2_output[1].ideal_content_profile
          = ErrorProfile(MsgBadType(PyStr("oops")))
    /\ stage2_output[2].ideal_content_profile = ErrorProfile(MsgNoScrape)
    /\ search_results = PyList(<<>>)
    /\ searched = {1, 2}
    /\ synthesized = {}
    /\ gemini_calls = <<>>

-----------------------------------------------------------------------------
(* Claims about the synthesis step of one sub-query.                       *)

(* C26: when at least one page was scraped for a sub-query and the         *)
(* text-generation collaborator answers the synthesis request with a       *)
(* well-formed reply whose top-level field ideal_content_profile holds the *)
(* six-field profile, the step sets the item's ideal_content_profile to    *)
(* exactly that profile, which carries no error.                           *)
C26_WellFormedReplyIsTheProfile ==
    [][/\ pc = "synthesis"
       /\ scraped_content # <<>>
       /\ Len(gemini_calls') = Len(gemini_calls) + 1
       /\ WellFormedSynthesis(Last(gemini_calls'))
       /\ Last(gemini_calls').api.value.body.value.d.ideal_content_profile
             = SixFieldProfile
       => /\ stage2_output'[idx].ideal_content_profile = SixFieldProfile
          /\ "error" \notin DOMAIN SixFieldProfile.d]_vars

-----------------------------------------------------------------------------
(* Claims about the list route_subqueries returns.                         *)

RECURSIVE FirstSeen(_)
\* the elements of xs without repetition, each at its first occurrence
FirstSeen(xs) ==
    IF xs = <<>> THEN <<>>
    ELSE LET front == SubSeq(xs, 1, Len(xs) - 1) IN
         IF Last(xs) \in Range(front) THEN FirstSeen(front)
         ELSE Append(FirstSeen(front), Last(xs))

\* route_subqueries returned the fallback list of lines 103-111
FallbackReturned ==
    /\ main_pc = "stage3"
    /\ stage2_data.t = "list"
    /\ stage2_data.xs # <<>>
    /\ \A i \in 1..Len(stage2_data.xs) : IsFallbackItem(stage2_data.xs[i])

(* C27: the order in which route_subqueries lists the deduplicated         *)
(* sub-queries in its fallback output is the first-seen order of the       *)
(* concatenation rewrites_and_diversifications, speculative_sub_questions, *)
(* projected_latent_intents, so that two runs on the same expansion result *)
(* give the same order.                                                    *)
C27_FallbackInFirstSeenOrder ==
    FallbackReturned
        => [i \in 1..Len(stage2_data.xs) |-> stage2_data.xs[i].d.sub_query]
              = FirstSeen(JoinedSubQueries(stage1_data).value.xs)

\* the sub_query values of the items of a returned list
ReturnedSubQueries ==
    [i \in 1..Len(stage2_data.xs) |->
        DictGet(stage2_data.xs[i], "sub_query", KeyMissing)]

(* C28: every item returned by route_subqueries names exactly one          *)
(* sub-query of the deduplicated input and no sub-query is named by two    *)
(* items: sub_query is a unique key of the returned batch, and the set of  *)
(* returned sub_query values equals the set of input sub-queries.          *)
C28_SubQueryIsAUniqueKey ==
    main_pc = "stage3" /\ stage2_data.t = "list"
        => /\ Range(ReturnedSubQueries) = DistinctSubQueries(stage1_data)
           /\ \A i, j \in 1..Len(stage2_data.xs) :
                  ReturnedSubQueries[i] = ReturnedSubQueries[j] => i = j

\* an item whose routing fields are drawn from the two vocabularies
InVocabulary(item) ==
    /\ item.t = "dict"
    /\ {"predicted_modality", "predicted_source_types"} \subseteq DOMAIN item.d
    /\ item.d.predicted_modality \in {PyStr(m) : m \in Range(MODALITY_TYPES)}
    /\ item.d.predicted_source_types.t = "list"
    /\ Range(item.d.predicted_source_types.xs)
          \subseteq {PyStr(s) : s \in Range(SOURCE_TYPES)}

(* C29: every item returned by route_subqueries, on the reply path and on  *)
(* the fallback path, has predicted_modality equal to one element of       *)
(* MODALITY_TYPES and predicted_source_types a subset of SOURCE_TYPES.     *)
C29_RoutingDrawnFromVocabularies ==
    main_pc = "stage3" /\ stage2_data.t = "list"
        => \A i \in 1..Len(stage2_data.xs) : InVocabulary(stage2_data.xs[i])

-----------------------------------------------------------------------------
(* Claims about what profile_content_competitively leaves alone.           *)

\* a step keeps the number and order of the items and, in each item, every
\* field other than ideal_content_profile
ItemsKept ==
    /\ Len(stage2_output') = Len(stage2_output)
    /\ \A i \in 1..Len(stage2_output) :
          /\ DOMAIN stage2_output'[i] = DOMAIN stage2_output[i]
          /\ \A f \in DOMAIN stage2_output[i] \ {"ideal_content_profile"} :
                 stage2_output'[i][f] = stage2_output[i][f]

(* C30: profile_content_competitively returns its input items in the same  *)
(* number and order, and in each item changes nothing except the field     *)
(* ideal_content_profile: the sub-query and the routing fields are the     *)
(* same after every step of the call as before it, when the item is        *)
(* profiled and when it fails.                                             *)
C30_OnlyTheProfileChanges == [][ItemsKept]_vars

\* the call returned two items, in their order and with their routing, one
\* failed at its search and the other at its synthesis
C30_Witness ==
    /\ pc = "done"
    /\ Len(stage2_output) = 2
    /\ stage2_output[1].sub_query = PyStr("a")
    /\ stage2_output[2].sub_query = PyStr("b")
    /\ \A i \in 1..2 : stage2_output[i].routing = "routed"
    /\ stage2_output[1].ideal_content_profile = ErrorProfile(MsgNoResults)
    /\ stage2_output[2].ideal_content_profile = ErrorProfile(MsgStrIndex)

-----------------------------------------------------------------------------
(* Claims about single scrape calls of the scrape loop.                    *)

\* lines 122-133: a step of the for loop in which the wrapped scrape call was
\* made and raised, or returned no usable content
ScrapeFailedStep ==
    /\ pc = "for_url"
    /\ Len(scrape_calls') = Len(scrape_calls) + 1
    /\ last_scrape' \in {"raised", "unusable"}

(* C31: a scrape of one URL that raises (a rate-limit error that used up   *)
(* its retries included) or returns no usable content does not fail the    *)
(* sub-query: the URL is marked attempted, nothing is appended to          *)
(* scraped_content, the pages scraped before are kept, and the for loop    *)
(* goes on to the next URL of the same sub-query.                          *)
C31_ScrapeFailureIsPerUrl ==
    [][ScrapeFailedStep
         => /\ Last(scrape_calls') \in attempted_urls'
            /\ Last(scrape_calls') \notin attempted_urls
            /\ scraped_content' = scraped_content
            /\ pc' = "for_url"
            /\ url_i' = url_i + 1
            /\ idx' = idx
            /\ stage2_output' = stage2_output]_vars

\* a scrape raised after a page had been scraped, the page is kept and the
\* loop stands at the next URL
C31_Witness ==
    /\ pc = "for_url"
    /\ last_scrape = "raised"
    /\ Len(scraped_content) = 1
    /\ Len(scrape_calls) >= 2
    /\ scraped_content[1].url # Last(scrape_calls)
    /\ Last(scrape_calls) \in attempted_urls
    /\ "scrape_raise" \in failed_steps[idx]
    /\ stage2_output[idx].ideal_content_profile = NoProfile

(* C32: within the processing of one sub-query each distinct URL is passed *)
(* to the scrape collaborator in at most one wrapped scrape call across    *)
(* all widening passes: a URL attempted in an earlier pass, or appearing   *)
(* twice in the search results, is never scraped again.                    *)
C32_EachUrlScrapedAtMostOnce ==
    \A i, j \in 1..Len(scrape_calls) :
        scrape_calls[i] = scrape_calls[j] => i = j

\* the loop ended after several passes over search results that name a URL
\* twice, and that URL was scraped once
C32_Witness ==
    /\ pc = "after_scrape"
    /\ outer_passes >= 2
    /\ Len(scrape_calls) >= 2
    /\ \E i, j \in 1..Len(top_urls) :
          /\ i < j
          /\ top_urls[i] = top_urls[j]
          /\ j <= urls_to_scrape_count
          /\ Cardinality({k \in 1..Len(scrape_calls) :
                            scrape_calls[k] = top_urls[i]}) = 1

\* a step of the for loop in which the wrapped scrape call was made
ScrapeCallStep ==
    /\ pc = "for_url"
    /\ Len(scrape_calls') = Len(scrape_calls) + 1

(* C33 as stated: at every point of the scrape loop the number of scraped  *)
(* pages is at most MIN_SCRAPABLE_RESULTS.                                 *)
C33_Original ==
    pc \in {"while", "for_url", "after_scrape"}
        => Len(scraped_content) <= MIN_SCRAPABLE_RESULTS

(* C33, amended: at every point of the scrape loop the number of scraped   *)
(* pages is at most MIN_SCRAPABLE_RESULTS when that threshold is zero or   *)
(* more, and zero when it is negative; a scrape call is made only while    *)
(* the number of pages is below the threshold, so that the synthesis       *)
(* request never embeds more than MIN_SCRAPABLE_RESULTS pages.             *)
C33_ScrapedPagesAtMostThreshold ==
    [][/\ Len(scraped_content') <= IF MIN_SCRAPABLE_RESULTS >= 0
                                    THEN MIN_SCRAPABLE_RESULTS ELSE 0
       /\ ScrapeCallStep => Len(scraped_content) < MIN_SCRAPABLE_RESULTS]_vars

\* the loop stopped in the middle of a pass with exactly the threshold of
\* pages, leaving URLs of the pass that were never scraped
C33_Witness ==
    /\ pc = "after_scrape"
    /\ loop_exit = "break"
    /\ MIN_SCRAPABLE_RESULTS = 2
    /\ Len(scraped_content) = MIN_SCRAPABLE_RESULTS
    /\ url_i < Len(urls_for_this_attempt)
    /\ \E k \in (url_i + 1)..Len(urls_for_this_attempt) :
          urls_for_this_attempt[k] \notin attempted_urls

-----------------------------------------------------------------------------
(* C34: for every integer value of MAX_RETRIES, each call of               *)
(* _firecrawl_with_backoff invokes the wrapped function at least once and  *)
(* ends either by returning a value that the wrapped function returned or  *)
(* by raising an error that the wrapped function raised; its delay starts  *)
(* at INITIAL_DELAY in every call, whatever retries earlier calls made.    *)
C34_WrapperCallsAtLeastOnce ==
    /\ BackoffEnded =>
          /\ Len(backoff.calls) >= 1
          /\ backoff.result = Last(backoff.calls)
          /\ backoff.status = "returned" <=> Last(backoff.calls).kind = "return"
    /\ backoff.status = "running" /\ backoff.calls = <<>> =>
          backoff.delay = INITIAL_DELAY

-----------------------------------------------------------------------------
(* Claims about the summary of the ledger.                                 *)

(* C35: get_summary reports a credits-used figure only when both the       *)
(* start_run snapshot and the end_run snapshot were taken and both         *)
(* obtained a credit count; in every other ledger state (a freshly created *)
(* ledger, a start or an end snapshot that is unknown) the figure is       *)
(* omitted.                                                                *)
C35_CreditsOnlyFromTwoSnapshots ==
    /\ tracker_pc \in {"created", "started"} =>
          \A i \in 1..Len(summaries) : summaries[i].text.credits_used = Omitted
    /\ \A i \in 1..Len(summaries) :
          \/ summaries[i].before.firecrawl_credits_start = PyNone
          \/ summaries[i].before.firecrawl_credits_end = PyNone
          => summaries[i].text.credits_used = Omitted

-----------------------------------------------------------------------------
\* a member whose ideal_content_profile is present and holds no error
UsableProfile(profile) ==
    /\ profile.ideal_content_profile # KeyMissing
    /\ "error" \notin DOMAIN profile.ideal_content_profile.d

(* C36: _synthesize_brief states that competitive analysis could not be    *)
(* performed exactly when no member of the cluster has a usable            *)
(* ideal_content_profile (present and without error); a member that has no *)
(* ideal_content_profile at all, such as an item the profiling stage       *)
(* skipped, does not count as a valid profile.                             *)
C36_NoteIffNoUsableProfile ==
    BriefReturned =>
        (brief.note <=>
            \A i \in 1..Len(cluster_profiles) : ~UsableProfile(cluster_profiles[i]))

-----------------------------------------------------------------------------
(* C37: route_subqueries never raises for any value that expand_query can  *)
(* return, an expansion reply in which a sequence field is null, is no     *)
(* sequence, or holds elements that are no strings included: in every case *)
(* it returns a list.                                                      *)
C37_RouteNeverRaises ==
    /\ main_pc # "raised"
    /\ main_pc = "stage3" => stage2_data.t = "list"

-----------------------------------------------------------------------------
(* Claims about the ledger during a pipeline run.                          *)

RECURSIVE ReportedTokens(_, _)
\* the sum of one token count over the calls of generate_content that
\* returned a response with usage metadata
ReportedTokens(calls, count) ==
    IF calls = <<>> THEN 0
    ELSE LET call == Last(calls)
             rest == ReportedTokens(SubSeq(calls, 1, Len(calls) - 1), count)
         IN  IF call.api.kind = "return" /\ call.usage # NoUsage
             THEN rest + call.usage[count]
             ELSE rest

(* C38: throughout a pipeline run (expansion, routing, profiling) the      *)
(* ledger's token counts never decrease and equal the sum of the usage     *)
(* reported by all delegated text-generation calls that returned a         *)
(* response with usage metadata, while total_cost keeps its initial value  *)
(* 0, because every pipeline call uses the default model name, which the   *)
(* pricing table does not hold.                                            *)
C38_LedgerFollowsReportedUsage ==
    [][/\ gemini_token_usage'.input >= gemini_token_usage.input
       /\ gemini_token_usage'.output >= gemini_token_usage.output
       /\ gemini_token_usage'.input
             = ReportedTokens(gemini_calls', "prompt_token_count")
       /\ gemini_token_usage'.output
             = ReportedTokens(gemini_calls', "candidates_token_count")
       /\ total_cost' = 0
       /\ DefaultModelName \notin DOMAIN gemini_costs]_vars

\* expansion and routing both called the collaborator, one response came
\* without usage metadata and the other with it
C38_Witness ==
    /\ main_pc = "stage3"
    /\ Len(gemini_calls) = 2
    /\ gemini_calls[1].caller = "expand_query"
    /\ gemini_calls[1].api.kind = "return"
    /\ gemini_calls[1].usage = NoUsage
    /\ gemini_calls[2].caller = "route_subqueries"
    /\ gemini_calls[2].usage = Usage(1200, 300)
    /\ gemini_token_usage = [input |-> 1200, output |-> 300]
    /\ Len(tracked) = 1
    /\ total_cost = 0

=============================================================================
